---- MODULE Spec2Model ----
(***************************************************************************)
(* A model of the chess position/legality engine of ChessEngine.py         *)
(* (classes Move, CastlingRights, GameState) and of the part of the        *)
(* driver loop of ChessMain.py that feeds it: a click that makes one of    *)
(* the listed moves, the 'z' key that undoes one, and the recomputation    *)
(* of the list of valid moves.                                             *)
(*                                                                         *)
(* A piece token is the two-character string of the source ("wP", "--").   *)
(* The board is board[r][c] with r, c in 0..7, as in the source.  A        *)
(* GameState is a record gs whose fields carry the names of the            *)
(* attributes of the class; every method is an operator from a GameState   *)
(* record (and the method's arguments) to what the method leaves behind.   *)
(***************************************************************************)
EXTENDS Integers, Sequences, FiniteSets, TLC

\* ------------------------------------------------------------------ bounds
\* Number of plies the driver may play freely after the prepared game it
\* follows has been played out.
MaxFree == 1

\* ------------------------------------------------------------ piece tokens
WhitePieces == {"wP", "wN", "wB", "wR", "wQ", "wK"}
BlackPieces == {"bP", "bN", "bB", "bR", "bQ", "bK"}

\* token[0]: the colour character ("-" for the empty token "--").
PieceColor(t) ==
    IF t \in WhitePieces THEN "w" ELSE IF t \in BlackPieces THEN "b" ELSE "-"

\* token[1]: the type character ("-" for the empty token "--").
PieceType(t) ==
    CASE t \in {"wP", "bP"} -> "P"
      [] t \in {"wN", "bN"} -> "N"
      [] t \in {"wB", "bB"} -> "B"
      [] t \in {"wR", "bR"} -> "R"
      [] t \in {"wQ", "bQ"} -> "Q"
      [] t \in {"wK", "bK"} -> "K"
      [] OTHER -> "-"

Abs(x) == IF x < 0 THEN -x ELSE x

OnBoard(r, c) == (0 <= r) /\ (r < 8) /\ (0 <= c) /\ (c < 8)

\* ------------------------------------------------------------- directions
\* Indexed from 0 as in the source: 0..3 orthogonal, 4..7 diagonal.
king_dirs ==
    [j \in 0..7 |->
        << <<-1, 0>>, <<0, -1>>, <<1, 0>>, <<0, 1>>,
           <<-1, -1>>, <<-1, 1>>, <<1, -1>>, <<1, 1>> >>[j + 1]]

\* knight_dirs with a slip in the second direction.
knight_dirs_typo ==
    [j \in 0..7 |->
        << <<-2, -1>>, <<-2, 2>>, <<-1, -2>>, <<-1, 2>>,
           <<1, -2>>, <<1, 2>>, <<2, -1>>, <<2, 1>> >>[j + 1]]

knight_dirs ==
    [j \in 0..7 |->
        << <<-2, -1>>, <<-2, 1>>, <<-1, -2>>, <<-1, 2>>,
           <<1, -2>>, <<1, 2>>, <<2, -1>>, <<2, 1>> >>[j + 1]]

bishop_dirs ==
    [j \in 0..3 |-> << <<-1, -1>>, <<-1, 1>>, <<1, -1>>, <<1, 1>> >>[j + 1]]

rook_dirs ==
    [j \in 0..3 |-> << <<-1, 0>>, <<0, -1>>, <<1, 0>>, <<0, 1>> >>[j + 1]]

\* A list index as Python resolves it: a negative index counts from the
\* end (callers keep it within -8..7).
PyIndex(i) == IF i < 0 THEN i + 8 ELSE i

\* board[r][c] as the source reads it.
At(b, r, c) == b[PyIndex(r)][PyIndex(c)]

\* ------------------------------------------------------------------- Move
\* Move.__init__ with the origin row given the weight of the origin
\* column in the identifier.
Move_same_weight(start_square, end_square, b, is_pawn_promotion, is_en_passant, is_castling) ==
    LET moved == b[start_square[1]][start_square[2]] IN
    [ start_r |-> start_square[1],
      start_c |-> start_square[2],
      end_r |-> end_square[1],
      end_c |-> end_square[2],
      piece_moved |-> moved,
      piece_captured |->
          IF is_en_passant
          THEN (IF moved = "wP" THEN "bP" ELSE "wP")
          ELSE At(b, end_square[1], end_square[2]),
      is_pawn_promotion |-> is_pawn_promotion,
      is_en_passant |-> is_en_passant,
      is_castling |-> is_castling,
      move_id |-> (start_square[1] * 100) + (start_square[2] * 100)
                  + (end_square[1] * 10) + end_square[2] ]

\* Move.__init__: the squares, the tokens read from the board at
\* construction time, the three flags and the four-digit identifier.
Move(start_square, end_square, b, is_pawn_promotion, is_en_passant, is_castling) ==
    LET moved == b[start_square[1]][start_square[2]] IN
    [ start_r |-> start_square[1],
      start_c |-> start_square[2],
      end_r |-> end_square[1],
      end_c |-> end_square[2],
      piece_moved |-> moved,
      piece_captured |->
          IF is_en_passant
          THEN (IF moved = "wP" THEN "bP" ELSE "wP")
          ELSE At(b, end_square[1], end_square[2]),
      is_pawn_promotion |-> is_pawn_promotion,
      is_en_passant |-> is_en_passant,
      is_castling |-> is_castling,
      move_id |-> (start_square[1] * 1000) + (start_square[2] * 100)
                  + (end_square[1] * 10) + end_square[2] ]

\* Move.__eq__ on two Move values.
MoveEq(a, b) == a.move_id = b.move_id

\* --------------------------------------------------------- CastlingRights
CastlingRights(wks, bks, wqs, bqs) ==
    [wks |-> wks, bks |-> bks, wqs |-> wqs, bqs |-> bqs]

\* -------------------------------------------------------------- GameState
InitialBoard ==
    [r \in 0..7 |->
        [c \in 0..7 |->
            CASE r = 0 -> <<"bR", "bN", "bB", "bQ", "bK", "bB", "bN", "bR">>[c + 1]
              [] r = 1 -> "bP"
              [] r = 6 -> "wP"
              [] r = 7 -> <<"wR", "wN", "wB", "wQ", "wK", "wB", "wN", "wR">>[c + 1]
              [] OTHER -> "--"]]

\* GameState.__init__
NewGameState ==
    [ board |-> InitialBoard,
      white_to_move |-> TRUE,
      move_log |-> <<>>,
      white_king_location |-> <<7, 4>>,
      black_king_location |-> <<0, 4>>,
      current_player_is_in_check |-> FALSE,
      checks |-> <<>>,
      pins |-> <<>>,
      checkmate |-> FALSE,
      stalemate |-> FALSE,
      en_passant_possible |-> <<>>,
      current_castling_rights |-> CastlingRights(TRUE, TRUE, TRUE, TRUE),
      castling_rights_log |-> << CastlingRights(TRUE, TRUE, TRUE, TRUE) >> ]

\* update_castling_rights with the king's rights taken from the square the
\* king lands on, so that a king back on its home square has them again.
update_castling_rights_by_square(ccr, m) ==
    LET moved ==
            CASE m.piece_moved = "wK" ->
                    [ccr EXCEPT !.wks = (<<m.end_r, m.end_c>> = <<7, 4>>),
                                !.wqs = (<<m.end_r, m.end_c>> = <<7, 4>>)]
              [] m.piece_moved = "bK" ->
                    [ccr EXCEPT !.bks = (<<m.end_r, m.end_c>> = <<0, 4>>),
                                !.bqs = (<<m.end_r, m.end_c>> = <<0, 4>>)]
              [] m.piece_moved = "wR" /\ m.start_r = 7 /\ m.start_c = 0 ->
                    [ccr EXCEPT !.wqs = FALSE]
              [] m.piece_moved = "wR" /\ m.start_r = 7 /\ m.start_c = 7 ->
                    [ccr EXCEPT !.wks = FALSE]
              [] m.piece_moved = "bR" /\ m.start_r = 0 /\ m.start_c = 0 ->
                    [ccr EXCEPT !.bqs = FALSE]
              [] m.piece_moved = "bR" /\ m.start_r = 0 /\ m.start_c = 7 ->
                    [ccr EXCEPT !.bks = FALSE]
              [] OTHER -> ccr
    IN  CASE m.piece_captured = "wR" /\ m.end_r = 7 /\ m.end_c = 0 ->
                [moved EXCEPT !.wqs = FALSE]
          [] m.piece_captured = "wR" /\ m.end_r = 7 /\ m.end_c = 7 ->
                [moved EXCEPT !.wks = FALSE]
          [] m.piece_captured = "bR" /\ m.end_r = 0 /\ m.end_c = 0 ->
                [moved EXCEPT !.bqs = FALSE]
          [] m.piece_captured = "bR" /\ m.end_r = 0 /\ m.end_c = 7 ->
                [moved EXCEPT !.bks = FALSE]
          [] OTHER -> moved

\* update_castling_rights without the part on a captured rook.
update_castling_rights_no_capture(ccr, m) ==
    CASE m.piece_moved = "wK" -> [ccr EXCEPT !.wks = FALSE, !.wqs = FALSE]
      [] m.piece_moved = "bK" -> [ccr EXCEPT !.bks = FALSE, !.bqs = FALSE]
      [] m.piece_moved = "wR" /\ m.start_r = 7 /\ m.start_c = 0 ->
            [ccr EXCEPT !.wqs = FALSE]
      [] m.piece_moved = "wR" /\ m.start_r = 7 /\ m.start_c = 7 ->
            [ccr EXCEPT !.wks = FALSE]
      [] m.piece_moved = "bR" /\ m.start_r = 0 /\ m.start_c = 0 ->
            [ccr EXCEPT !.bqs = FALSE]
      [] m.piece_moved = "bR" /\ m.start_r = 0 /\ m.start_c = 7 ->
            [ccr EXCEPT !.bks = FALSE]
      [] OTHER -> ccr

\* GameState.update_castling_rights: the rights after move m, from the
\* rights ccr before it.
update_castling_rights(ccr, m) ==
    LET moved ==
            CASE m.piece_moved = "wK" -> [ccr EXCEPT !.wks = FALSE, !.wqs = FALSE]
              [] m.piece_moved = "bK" -> [ccr EXCEPT !.bks = FALSE, !.bqs = FALSE]
              [] m.piece_moved = "wR" /\ m.start_r = 7 /\ m.start_c = 0 ->
                    [ccr EXCEPT !.wqs = FALSE]
              [] m.piece_moved = "wR" /\ m.start_r = 7 /\ m.start_c = 7 ->
                    [ccr EXCEPT !.wks = FALSE]
              [] m.piece_moved = "bR" /\ m.start_r = 0 /\ m.start_c = 0 ->
                    [ccr EXCEPT !.bqs = FALSE]
              [] m.piece_moved = "bR" /\ m.start_r = 0 /\ m.start_c = 7 ->
                    [ccr EXCEPT !.bks = FALSE]
              [] OTHER -> ccr
    IN  CASE m.piece_captured = "wR" /\ m.end_r = 7 /\ m.end_c = 0 ->
                [moved EXCEPT !.wqs = FALSE]
          [] m.piece_captured = "wR" /\ m.end_r = 7 /\ m.end_c = 7 ->
                [moved EXCEPT !.wks = FALSE]
          [] m.piece_captured = "bR" /\ m.end_r = 0 /\ m.end_c = 0 ->
                [moved EXCEPT !.bqs = FALSE]
          [] m.piece_captured = "bR" /\ m.end_r = 0 /\ m.end_c = 7 ->
                [moved EXCEPT !.bks = FALSE]
          [] OTHER -> moved

\* The text typed at the promotion prompt, upper-cased; the empty text
\* stands for the default.
promoted_piece(txt) == IF txt = "" THEN "Q" ELSE txt

\* The board writes of make_move without the removal of the pawn taken en
\* passant.
make_move_board_pawn_left(b, m, txt) ==
    LET b1 == [b EXCEPT ![m.start_r][m.start_c] = "--"]
        b2 == [b1 EXCEPT ![m.end_r][m.end_c] = m.piece_moved]
        b4 == IF m.is_pawn_promotion
              THEN [b2 EXCEPT ![m.end_r][m.end_c] =
                        PieceColor(m.piece_moved) \o promoted_piece(txt)]
              ELSE b2
    IN  IF m.is_castling
        THEN IF m.end_c - m.start_c = 2
             THEN [b4 EXCEPT ![m.end_r][m.end_c - 1] = b4[m.end_r][m.end_c + 1],
                             ![m.end_r][m.end_c + 1] = "--"]
             ELSE [b4 EXCEPT ![m.end_r][m.end_c + 1] = b4[m.end_r][m.end_c - 2],
                             ![m.end_r][m.end_c - 2] = "--"]
        ELSE b4

\* The board writes of make_move, in the order of the source.
make_move_board(b, m, txt) ==
    LET b1 == [b EXCEPT ![m.start_r][m.start_c] = "--"]
        b2 == [b1 EXCEPT ![m.end_r][m.end_c] = m.piece_moved]
        b3 == IF m.is_en_passant
              THEN [b2 EXCEPT ![m.start_r][m.end_c] = "--"]
              ELSE b2
        b4 == IF m.is_pawn_promotion
              THEN [b3 EXCEPT ![m.end_r][m.end_c] =
                        PieceColor(m.piece_moved) \o promoted_piece(txt)]
              ELSE b3
    IN  IF m.is_castling
        THEN IF m.end_c - m.start_c = 2
             THEN [b4 EXCEPT ![m.end_r][m.end_c - 1] = b4[m.end_r][m.end_c + 1],
                             ![m.end_r][m.end_c + 1] = "--"]
             ELSE [b4 EXCEPT ![m.end_r][m.end_c + 1] = b4[m.end_r][m.end_c - 2],
                             ![m.end_r][m.end_c - 2] = "--"]
        ELSE b4

\* make_move's en-passant target without the test for a pawn: any move
\* across two rows leaves a target.
make_move_en_passant_any_piece(m) ==
    IF Abs(m.start_r - m.end_r) = 2
    THEN << (m.start_r + m.end_r) \div 2, m.end_c >>
    ELSE <<>>

\* The en-passant target make_move leaves behind.
make_move_en_passant(m) ==
    IF PieceType(m.piece_moved) = "P" /\ Abs(m.start_r - m.end_r) = 2
    THEN << (m.start_r + m.end_r) \div 2, m.end_c >>
    ELSE <<>>

\* make_move without the switch of the player.
make_move_no_switch(gs, m, txt) ==
    LET ccr == update_castling_rights(gs.current_castling_rights, m) IN
    [ gs EXCEPT
        !.board = make_move_board(gs.board, m, txt),
        !.move_log = Append(gs.move_log, m),
        !.white_king_location =
            IF m.piece_moved = "wK" THEN <<m.end_r, m.end_c>> ELSE @,
        !.black_king_location =
            IF m.piece_moved = "bK" THEN <<m.end_r, m.end_c>> ELSE @,
        !.en_passant_possible = make_move_en_passant(m),
        !.current_castling_rights = ccr,
        !.castling_rights_log = Append(gs.castling_rights_log, ccr) ]

\* make_move appending the rights object itself instead of a copy of its
\* fields: every entry appended so far shows the rights of the last move.
make_move_log_aliased(gs, m, txt) ==
    LET ccr == update_castling_rights(gs.current_castling_rights, m) IN
    [ gs EXCEPT
        !.board = make_move_board(gs.board, m, txt),
        !.move_log = Append(gs.move_log, m),
        !.white_to_move = ~gs.white_to_move,
        !.white_king_location =
            IF m.piece_moved = "wK" THEN <<m.end_r, m.end_c>> ELSE @,
        !.black_king_location =
            IF m.piece_moved = "bK" THEN <<m.end_r, m.end_c>> ELSE @,
        !.en_passant_possible = make_move_en_passant(m),
        !.current_castling_rights = ccr,
        !.castling_rights_log =
            [i \in 1..(Len(gs.castling_rights_log) + 1) |->
                IF i = 1 THEN gs.castling_rights_log[1] ELSE ccr] ]

\* GameState.make_move(m), with txt the text read at the promotion prompt.
make_move(gs, m, txt) ==
    LET ccr == update_castling_rights(gs.current_castling_rights, m) IN
    [ gs EXCEPT
        !.board = make_move_board(gs.board, m, txt),
        !.move_log = Append(gs.move_log, m),
        !.white_to_move = ~gs.white_to_move,
        !.white_king_location =
            IF m.piece_moved = "wK" THEN <<m.end_r, m.end_c>> ELSE @,
        !.black_king_location =
            IF m.piece_moved = "bK" THEN <<m.end_r, m.end_c>> ELSE @,
        !.en_passant_possible = make_move_en_passant(m),
        !.current_castling_rights = ccr,
        !.castling_rights_log = Append(gs.castling_rights_log, ccr) ]

\* The board writes of undo_move, in the order of the source.
undo_move_board(b, m) ==
    LET b1 == [b EXCEPT ![m.start_r][m.start_c] = m.piece_moved]
        b2 == [b1 EXCEPT ![m.end_r][m.end_c] = m.piece_captured]
        b3 == IF m.is_en_passant
              THEN [b2 EXCEPT ![m.end_r][m.end_c] = "--",
                              ![m.start_r][m.end_c] = m.piece_captured]
              ELSE b2
    IN  IF m.is_castling
        THEN IF m.end_c - m.start_c = 2
             THEN [b3 EXCEPT ![m.end_r][m.end_c + 1] = b3[m.end_r][m.end_c - 1],
                             ![m.end_r][m.end_c - 1] = "--"]
             ELSE [b3 EXCEPT ![m.end_r][m.end_c - 2] = b3[m.end_r][m.end_c + 1],
                             ![m.end_r][m.end_c + 1] = "--"]
        ELSE b3

\* undo_move's en-passant target without the reset for a two-square pawn
\* advance.
undo_move_en_passant_kept(ep, m) ==
    IF m.is_en_passant THEN <<m.end_r, m.end_c>> ELSE ep

\* undo_move's en-passant target when the undone en-passant capture
\* leaves none.
undo_move_en_passant_none(ep, m) ==
    IF PieceType(m.piece_moved) = "P" /\ Abs(m.start_r - m.end_r) = 2
    THEN <<>>
    ELSE ep

\* The en-passant target undo_move leaves behind, from the one it found.
undo_move_en_passant(ep, m) ==
    IF PieceType(m.piece_moved) = "P" /\ Abs(m.start_r - m.end_r) = 2
    THEN <<>>
    ELSE IF m.is_en_passant THEN <<m.end_r, m.end_c>> ELSE ep

\* undo_move without the pop of the castling-rights log.
undo_move_rights_log_kept(castling_rights_log) == castling_rights_log

\* self.castling_rights_log.pop() in undo_move: the log it leaves.
undo_move_rights_log(castling_rights_log) ==
    SubSeq(castling_rights_log, 1, Len(castling_rights_log) - 1)

\* The body of undo_move under its guard: the last move of the log is
\* popped and taken back.
undo_last_move(gs) ==
    LET m == gs.move_log[Len(gs.move_log)]
        crl == undo_move_rights_log(gs.castling_rights_log)
        top == crl[Len(crl)]
    IN  [ gs EXCEPT
            !.move_log = SubSeq(gs.move_log, 1, Len(gs.move_log) - 1),
            !.board = undo_move_board(gs.board, m),
            !.white_to_move = ~gs.white_to_move,
            !.white_king_location =
                IF m.piece_moved = "wK" THEN <<m.start_r, m.start_c>> ELSE @,
            !.black_king_location =
                IF m.piece_moved = "bK" THEN <<m.start_r, m.start_c>> ELSE @,
            !.en_passant_possible = undo_move_en_passant(gs.en_passant_possible, m),
            !.castling_rights_log = crl,
            !.current_castling_rights =
                CastlingRights(top.wks, top.bks, top.wqs, top.bqs) ]

\* undo_move with the switch of the player placed before the guard.
undo_move_switch_unguarded(gs) ==
    IF Len(gs.move_log) > 0
    THEN undo_last_move(gs)
    ELSE [gs EXCEPT !.white_to_move = ~gs.white_to_move]

\* GameState.undo_move()
undo_move(gs) ==
    IF Len(gs.move_log) > 0
    THEN undo_last_move(gs)
    ELSE gs

\* ------------------------------------------------- attack / check / pin
\* The test on an enemy piece with the queen counted on the orthogonal
\* lines only.
RayAttacker_queen_as_rook(j, dist, piece_type, enemy_color) ==
    \/ (0 <= j /\ j <= 3 /\ piece_type \in {"R", "Q"})
    \/ (4 <= j /\ j <= 7 /\ piece_type = "B")
    \/ (dist = 1 /\ piece_type = "P"
        /\ (\/ (enemy_color = "w" /\ 6 <= j /\ j <= 7)
            \/ (enemy_color = "b" /\ 4 <= j /\ j <= 5)))
    \/ (dist = 1 /\ piece_type = "K")

\* The test of the source on an enemy piece of type piece_type met at
\* distance dist along king_dirs[j].
RayAttacker(j, dist, piece_type, enemy_color) ==
    \/ (0 <= j /\ j <= 3 /\ piece_type = "R")
    \/ (4 <= j /\ j <= 7 /\ piece_type = "B")
    \/ (dist = 1 /\ piece_type = "P"
        /\ (\/ (enemy_color = "w" /\ 6 <= j /\ j <= 7)
            \/ (enemy_color = "b" /\ 4 <= j /\ j <= 5)))
    \/ piece_type = "Q"
    \/ (dist = 1 /\ piece_type = "K")

\* The inner loop of search_for_pins_and_checks along king_dirs[j], from
\* distance dist on, with the candidate pin found so far (<<>> if none).
RECURSIVE PinCheckRay(_, _, _, _, _, _, _, _)
PinCheckRay(b, king_r, king_c, j, dist, possible_pin, ally_color, enemy_color) ==
    LET test_r == king_r + king_dirs[j][1] * dist
        test_c == king_c + king_dirs[j][2] * dist
        none == [pins |-> <<>>, checks |-> <<>>]
    IN  IF dist > 7 \/ ~OnBoard(test_r, test_c)
        THEN none
        ELSE LET test_piece == b[test_r][test_c] IN
             IF PieceColor(test_piece) = ally_color
             THEN IF possible_pin = <<>>
                  THEN PinCheckRay(b, king_r, king_c, j, dist + 1,
                                   <<test_r, test_c, king_dirs[j][1], king_dirs[j][2]>>,
                                   ally_color, enemy_color)
                  ELSE none
             ELSE IF PieceColor(test_piece) = enemy_color
             THEN IF RayAttacker(j, dist, PieceType(test_piece), enemy_color)
                  THEN IF possible_pin = <<>>
                       THEN [pins |-> <<>>,
                             checks |-> << <<test_r, test_c,
                                             king_dirs[j][1], king_dirs[j][2]>> >>]
                       ELSE [pins |-> <<possible_pin>>, checks |-> <<>>]
                  ELSE none
             ELSE PinCheckRay(b, king_r, king_c, j, dist + 1, possible_pin,
                              ally_color, enemy_color)

\* The pins and checks found so far, with those of one more direction.
FoundToo(found, here) ==
    [pins |-> found.pins \o here.pins, checks |-> found.checks \o here.checks]

\* The outer loop over the eight directions, from direction j on, with the
\* pins and checks found in the directions before it.
RECURSIVE PinCheckRays(_, _, _, _, _, _, _)
PinCheckRays(b, king_r, king_c, j, ally_color, enemy_color, found) ==
    IF j > 7
    THEN found
    ELSE PinCheckRays(b, king_r, king_c, j + 1, ally_color, enemy_color,
             FoundToo(found,
                 PinCheckRay(b, king_r, king_c, j, 1, <<>>, ally_color, enemy_color)))

\* The knight loop of search_for_pins_and_checks, from offset j on.
RECURSIVE KnightChecks(_, _, _, _, _)
KnightChecks(b, king_r, king_c, j, enemy_color) ==
    IF j > 7
    THEN <<>>
    ELSE LET end_r == king_r + knight_dirs[j][1]
             end_c == king_c + knight_dirs[j][2]
             rest == KnightChecks(b, king_r, king_c, j + 1, enemy_color)
         IN  IF OnBoard(end_r, end_c)
                /\ PieceColor(b[end_r][end_c]) = enemy_color
                /\ PieceType(b[end_r][end_c]) = "N"
             THEN << <<end_r, end_c, knight_dirs[j][1], knight_dirs[j][2]>> >> \o rest
             ELSE rest

\* What search_for_pins_and_checks returns, from what its two loops found.
PinsAndChecks(rays, knights) ==
    [ current_player_is_in_check |-> (rays.checks \o knights) # <<>>,
      pins |-> rays.pins,
      checks |-> rays.checks \o knights ]

\* GameState.search_for_pins_and_checks(), reading the board, the side to
\* move and the two king-location caches.
search_for_pins_and_checks(b, white_to_move, white_king_location, black_king_location) ==
    LET enemy_color == IF white_to_move THEN "b" ELSE "w"
        ally_color == IF white_to_move THEN "w" ELSE "b"
        king_r == IF white_to_move THEN white_king_location[1] ELSE black_king_location[1]
        king_c == IF white_to_move THEN white_king_location[2] ELSE black_king_location[2]
    IN  PinsAndChecks(
            PinCheckRays(b, king_r, king_c, 0, ally_color, enemy_color,
                         [pins |-> <<>>, checks |-> <<>>]),
            KnightChecks(b, king_r, king_c, 0, enemy_color))

\* The inner loop of search_for_attacks along king_dirs[j] from (r, c).
RECURSIVE AttackRay(_, _, _, _, _, _)
AttackRay(b, r, c, j, dist, enemy_c) ==
    LET end_r == r + king_dirs[j][1] * dist
        end_c == c + king_dirs[j][2] * dist
        ally_c == IF enemy_c = "b" THEN "w" ELSE "b"
    IN  IF dist > 7 \/ ~OnBoard(end_r, end_c)
        THEN FALSE
        ELSE LET end_piece == b[end_r][end_c] IN
             IF PieceColor(end_piece) = ally_c
             THEN FALSE
             ELSE IF PieceColor(end_piece) = enemy_c
             THEN RayAttacker(j, dist, PieceType(end_piece), enemy_c)
             ELSE AttackRay(b, r, c, j, dist + 1, enemy_c)

\* GameState.search_for_attacks(r, c, enemy_c): TRUE when an enemy piece
\* threatens the square.
search_for_attacks(b, r, c, enemy_c) ==
    \/ \E j \in 0..7 : AttackRay(b, r, c, j, 1, enemy_c)
    \/ \E j \in 0..7 :
          LET end_r == r + knight_dirs[j][1]
              end_c == c + knight_dirs[j][2]
          IN  /\ OnBoard(end_r, end_c)
              /\ PieceColor(b[end_r][end_c]) = enemy_c
              /\ PieceType(b[end_r][end_c]) = "N"

\* ------------------------------------------------------ material classifier
\* The numbers k = 8 * r + c of the squares of S in scan order (rows top
\* to bottom, columns left to right).
ScanOrder(S) ==
    [i \in 1..Cardinality(S) |->
        CHOOSE k \in S : Cardinality({x \in S : x < k}) = i - 1]

\* The squares holding a piece that is not a king.
ActiveSquares(b) ==
    {k \in 0..63 : ~(PieceType(b[k \div 8][k % 8]) = "K" \/ b[k \div 8][k % 8] = "--")}

\* active_pieces: the non-king tokens of the board in scan order.  The
\* classifier looks into the list only when it holds one or two tokens.
ActivePieces(b, squares) ==
    IF Cardinality(squares) > 2
    THEN [i \in 1..Cardinality(squares) |-> "??"]
    ELSE [i \in 1..Cardinality(squares) |->
             b[ScanOrder(squares)[i] \div 8][ScanOrder(squares)[i] % 8]]

\* The parities taken from the rows alone.
BishopParities_by_row(b) ==
    LET S == {k \in 0..63 : PieceType(b[k \div 8][k % 8]) = "B"} IN
    [i \in 1..Cardinality(S) |-> ScanOrder(S)[i] \div 8]

\* The values r + c of the squares holding a bishop, in scan order.
BishopParities(b) ==
    LET S == {k \in 0..63 : PieceType(b[k \div 8][k % 8]) = "B"} IN
    [i \in 1..Cardinality(S) |-> (ScanOrder(S)[i] \div 8) + (ScanOrder(S)[i] % 8)]

\* The verdict without the single bishop: one knight alone is a draw.
MaterialVerdict_knight_only(b, active_pieces) ==
    LET n == Len(active_pieces)
    IN  CASE n = 0 -> TRUE
          [] n = 1 -> PieceType(active_pieces[1]) = "N"
          [] OTHER -> FALSE

\* The verdict of search_for_material_stalemate on the list active_pieces.
MaterialVerdict(b, active_pieces) ==
    LET n == Len(active_pieces)
        all(t) == \A i \in 1..n : active_pieces[i] = t
    IN  CASE n = 0 -> TRUE
          [] n = 1 -> PieceType(active_pieces[1]) \in {"N", "B"}
          [] n = 2 ->
                IF all("bB") \/ all("wB")
                THEN \* the first bishop found, and the last one found after it
                     \E par \in {BishopParities(b)} :
                        ((par[1] + par[Len(par)]) % 2) = 0
                ELSE IF (\A i \in 1..n : PieceType(active_pieces[i]) = "B")
                        /\ (\E i \in 1..n : PieceColor(active_pieces[i]) = "w")
                        /\ (\E i \in 1..n : PieceColor(active_pieces[i]) = "b")
                THEN TRUE
                ELSE all("wN") \/ all("bN")
          [] OTHER -> FALSE

\* GameState.search_for_material_stalemate()
search_for_material_stalemate(b) ==
    MaterialVerdict(b, ActivePieces(b, ActiveSquares(b)))

\* ------------------------------------------------- pseudo-legal generators
\* What the generators hand on to each other: the list of moves they
\* append to, self.pins (entries are removed as pinned pieces are met),
\* the two king-location caches (get_king_moves relocates them), and
\* whether an IndexError has been raised.
GenState(moves, pins, white_king_location, black_king_location) ==
    [ moves |-> moves, pins |-> pins,
      white_king_location |-> white_king_location,
      black_king_location |-> black_king_location,
      raised |-> FALSE ]

\* The index (from 1) of the entry of pins for square (r, c) that the
\* downward loop of the generators meets first; 0 if there is none.
PinIndex(pins, r, c) ==
    LET hits == {j \in 1..Len(pins) : pins[j][1] = r /\ pins[j][2] = c}
    IN  IF hits = {} THEN 0 ELSE CHOOSE j \in hits : \A k \in hits : k <= j

\* list.remove(x): the list without its first element equal to x.
ListRemove(list, x) ==
    LET first == CHOOSE j \in 1..Len(list) :
                    list[j] = x /\ \A k \in 1..(j - 1) : list[k] # x
    IN  SubSeq(list, 1, first - 1) \o SubSeq(list, first + 1, Len(list))

\* The pin bookkeeping at the head of every generator but the king's.
PinLookup(pins, r, c) ==
    LET j == PinIndex(pins, r, c) IN
    IF j = 0
    THEN [piece_pinned |-> FALSE, pin_direction |-> <<>>, pins |-> pins]
    ELSE [piece_pinned |-> TRUE,
          pin_direction |-> <<pins[j][3], pins[j][4]>>,
          pins |-> ListRemove(pins, pins[j])]

\* get_pawn_moves with the promotion flag passed by the advance alone.
get_pawn_moves_captures_unflagged(gs, r, c, G) ==
    LET b == gs.board
        pin == PinLookup(G.pins, r, c)
        move_amount == IF gs.white_to_move THEN -1 ELSE 1
        start_r == IF gs.white_to_move THEN 6 ELSE 1
        promo_r == IF gs.white_to_move THEN 0 ELSE 7
        enemy_c == IF gs.white_to_move THEN "b" ELSE "w"
        free(dc) == (~pin.piece_pinned) \/ (pin.pin_direction = <<move_amount, dc>>)
        \* pawn_promotion, once set, stays set for the later appends
        promo == (r + move_amount = promo_r)
        advance ==
            IF b[r + move_amount][c] = "--" /\ free(0)
            THEN <<Move(<<r, c>>, <<r + move_amount, c>>, b, promo, FALSE, FALSE)>>
                 \o (IF r = start_r /\ b[r + (2 * move_amount)][c] = "--"
                     THEN <<Move(<<r, c>>, <<r + (2 * move_amount), c>>, b,
                                 FALSE, FALSE, FALSE)>>
                     ELSE <<>>)
            ELSE <<>>
        capture(dc) ==
            IF OnBoard(r, c + dc) /\ free(dc)
            THEN (IF PieceColor(b[r + move_amount][c + dc]) = enemy_c
                  THEN <<Move(<<r, c>>, <<r + move_amount, c + dc>>, b,
                              FALSE, FALSE, FALSE)>>
                  ELSE <<>>)
                 \o (IF <<r + move_amount, c + dc>> = gs.en_passant_possible
                     THEN <<Move(<<r, c>>, <<r + move_amount, c + dc>>, b,
                                 FALSE, TRUE, FALSE)>>
                     ELSE <<>>)
            ELSE <<>>
    IN  [G EXCEPT !.moves = G.moves \o advance \o capture(-1) \o capture(1),
                  !.pins = pin.pins]

\* GameState.get_pawn_moves(r, c, moves)
get_pawn_moves(gs, r, c, G) ==
    LET b == gs.board
        pin == PinLookup(G.pins, r, c)
        move_amount == IF gs.white_to_move THEN -1 ELSE 1
        start_r == IF gs.white_to_move THEN 6 ELSE 1
        promo_r == IF gs.white_to_move THEN 0 ELSE 7
        enemy_c == IF gs.white_to_move THEN "b" ELSE "w"
        free(dc) == (~pin.piece_pinned) \/ (pin.pin_direction = <<move_amount, dc>>)
        \* pawn_promotion, once set, stays set for the later appends
        promo == (r + move_amount = promo_r)
        advance ==
            IF b[r + move_amount][c] = "--" /\ free(0)
            THEN <<Move(<<r, c>>, <<r + move_amount, c>>, b, promo, FALSE, FALSE)>>
                 \o (IF r = start_r /\ b[r + (2 * move_amount)][c] = "--"
                     THEN <<Move(<<r, c>>, <<r + (2 * move_amount), c>>, b,
                                 FALSE, FALSE, FALSE)>>
                     ELSE <<>>)
            ELSE <<>>
        capture(dc) ==
            IF OnBoard(r, c + dc) /\ free(dc)
            THEN (IF PieceColor(b[r + move_amount][c + dc]) = enemy_c
                  THEN <<Move(<<r, c>>, <<r + move_amount, c + dc>>, b,
                              promo, FALSE, FALSE)>>
                  ELSE <<>>)
                 \o (IF <<r + move_amount, c + dc>> = gs.en_passant_possible
                     THEN <<Move(<<r, c>>, <<r + move_amount, c + dc>>, b,
                                 FALSE, TRUE, FALSE)>>
                     ELSE <<>>)
            ELSE <<>>
    IN  [G EXCEPT !.moves = G.moves \o advance \o capture(-1) \o capture(1),
                  !.pins = pin.pins]

\* GameState.get_knight_moves(r, c, moves)
get_knight_moves(gs, r, c, G) ==
    LET b == gs.board
        pin == PinLookup(G.pins, r, c)
        ally_c == IF gs.white_to_move THEN "w" ELSE "b"
        hop[j \in 0..8] ==
            IF j > 7
            THEN <<>>
            ELSE LET end_r == r + knight_dirs[j][1]
                     end_c == c + knight_dirs[j][2]
                 IN  (IF OnBoard(end_r, end_c) /\ ~pin.piece_pinned
                         /\ ~(PieceColor(b[end_r][end_c]) = ally_c)
                      THEN <<Move(<<r, c>>, <<end_r, end_c>>, b, FALSE, FALSE, FALSE)>>
                      ELSE <<>>) \o hop[j + 1]
    IN  [G EXCEPT !.moves = G.moves \o hop[0], !.pins = pin.pins]

\* The inner loop shared by the bishop, rook and queen generators: the
\* moves along direction dir from distance dist on.
RECURSIVE SlideRay(_, _, _, _, _, _)
SlideRay(b, r, c, dir, dist, enemy_c) ==
    LET end_r == r + dir[1] * dist
        end_c == c + dir[2] * dist
    IN  IF dist > 7 \/ ~OnBoard(end_r, end_c)
        THEN <<>>
        ELSE LET end_piece == b[end_r][end_c] IN
             IF end_piece = "--"
             THEN <<Move(<<r, c>>, <<end_r, end_c>>, b, FALSE, FALSE, FALSE)>>
                  \o SlideRay(b, r, c, dir, dist + 1, enemy_c)
             ELSE IF PieceColor(end_piece) = enemy_c
             THEN <<Move(<<r, c>>, <<end_r, end_c>>, b, FALSE, FALSE, FALSE)>>
             ELSE <<>>

\* The body shared by the bishop, rook and queen generators, over the
\* directions dirs[0..n-1].
SlideMoves(gs, r, c, G, dirs, n) ==
    LET pin == PinLookup(G.pins, r, c)
        enemy_c == IF gs.white_to_move THEN "b" ELSE "w"
        along(dir) ==
            (~pin.piece_pinned) \/ (pin.pin_direction = dir)
            \/ (pin.pin_direction = <<-dir[1], -dir[2]>>)
        ray[j \in 0..n] ==
            IF j >= n
            THEN <<>>
            ELSE (IF along(dirs[j])
                  THEN SlideRay(gs.board, r, c, dirs[j], 1, enemy_c)
                  ELSE <<>>) \o ray[j + 1]
    IN  [G EXCEPT !.moves = G.moves \o ray[0], !.pins = pin.pins]

\* GameState.get_bishop_moves(r, c, moves)
get_bishop_moves(gs, r, c, G) == SlideMoves(gs, r, c, G, bishop_dirs, 4)

\* GameState.get_rook_moves(r, c, moves)
get_rook_moves(gs, r, c, G) == SlideMoves(gs, r, c, G, rook_dirs, 4)

\* GameState.get_queen_moves(r, c, moves)
get_queen_moves(gs, r, c, G) == SlideMoves(gs, r, c, G, king_dirs, 8)

\* GameState.get_king_side_castling_moves(r, c, moves)
get_king_side_castling_moves(gs, r, c, G) ==
    LET b == gs.board
        ec == IF gs.white_to_move THEN "b" ELSE "w"
        \* board[r][c+1] and, when that square is empty, board[r][c+2] are
        \* read; a column beyond 7 raises IndexError
        first_raises == c + 1 > 7
        first_empty == (~first_raises) /\ At(b, r, c + 1) = "--"
        second_raises == first_empty /\ c + 2 > 7
    IN  IF first_raises \/ second_raises
        THEN [G EXCEPT !.raised = TRUE]
        ELSE IF first_empty /\ At(b, r, c + 2) = "--"
                /\ ~(search_for_attacks(b, r, c + 1, ec)
                     /\ search_for_attacks(b, r, c + 2, ec))
        THEN [G EXCEPT !.moves =
                  Append(G.moves, Move(<<r, c>>, <<r, c + 2>>, b, FALSE, FALSE, TRUE))]
        ELSE G

\* get_queen_side_castling_moves asking that none of the three squares
\* between king and rook is attacked.
get_queen_side_castling_moves_three_safe(gs, r, c, G) ==
    LET b == gs.board
        ec == IF gs.white_to_move THEN "b" ELSE "w"
    IN  IF At(b, r, c - 1) = "--" /\ At(b, r, c - 2) = "--" /\ At(b, r, c - 3) = "--"
           /\ ~(search_for_attacks(b, r, c - 1, ec)
                \/ search_for_attacks(b, r, c - 2, ec)
                \/ search_for_attacks(b, r, c - 3, ec))
        THEN [G EXCEPT !.moves =
                  Append(G.moves, Move(<<r, c>>, <<r, c - 2>>, b, FALSE, FALSE, TRUE))]
        ELSE G

\* GameState.get_queen_side_castling_moves(r, c, moves)
get_queen_side_castling_moves(gs, r, c, G) ==
    LET b == gs.board
        ec == IF gs.white_to_move THEN "b" ELSE "w"
    IN  IF At(b, r, c - 1) = "--" /\ At(b, r, c - 2) = "--" /\ At(b, r, c - 3) = "--"
           /\ ~(search_for_attacks(b, r, c - 1, ec)
                /\ search_for_attacks(b, r, c - 2, ec))
        THEN [G EXCEPT !.moves =
                  Append(G.moves, Move(<<r, c>>, <<r, c - 2>>, b, FALSE, FALSE, TRUE))]
        ELSE G

\* The queen-side half of get_castling_moves, after the king-side half.
CastlingQueenSide(gs, r, c, G) ==
    IF G.raised
    THEN G
    ELSE IF (gs.white_to_move /\ gs.current_castling_rights.wqs)
            \/ ((~gs.white_to_move) /\ gs.current_castling_rights.bqs)
    THEN get_queen_side_castling_moves(gs, r, c, G)
    ELSE G

\* GameState.get_castling_moves(r, c, moves)
get_castling_moves(gs, r, c, G) ==
    LET w == gs.white_to_move
        ec == IF gs.white_to_move THEN "b" ELSE "w"
        ccr == gs.current_castling_rights
        in_check ==
            IF w
            THEN search_for_attacks(gs.board, G.white_king_location[1],
                                    G.white_king_location[2], ec)
            ELSE search_for_attacks(gs.board, G.black_king_location[1],
                                    G.black_king_location[2], ec)
    IN  IF in_check
        THEN G
        ELSE CastlingQueenSide(gs, r, c,
                 IF (w /\ ccr.wks) \/ ((~w) /\ ccr.bks)
                 THEN get_king_side_castling_moves(gs, r, c, G)
                 ELSE G)

\* GameState.get_king_moves(r, c, moves)
get_king_moves(gs, r, c, G) ==
    LET b == gs.board
        ally_c == IF gs.white_to_move THEN "w" ELSE "b"
        candidate(j) ==
            LET end_r == r + king_dirs[j][1]
                end_c == c + king_dirs[j][2]
            IN  OnBoard(end_r, end_c) /\ ~(PieceColor(b[end_r][end_c]) = ally_c)
        \* the detector run with the king cache relocated to the end square
        probe(j) ==
            LET end == <<r + king_dirs[j][1], c + king_dirs[j][2]>> IN
            search_for_pins_and_checks(
                b, gs.white_to_move,
                IF ally_c = "w" THEN end ELSE G.white_king_location,
                IF ally_c = "w" THEN G.black_king_location ELSE end)
        step[j \in 0..8] ==
            IF j > 7
            THEN <<>>
            ELSE (IF candidate(j) /\ ~probe(j).current_player_is_in_check
                  THEN <<Move(<<r, c>>, <<r + king_dirs[j][1], c + king_dirs[j][2]>>,
                              b, FALSE, FALSE, FALSE)>>
                  ELSE <<>>) \o step[j + 1]
        \* the cache is written back as (r, c) after every probe
        probed == \E j \in 0..7 : candidate(j)
        G1 == [G EXCEPT
                 !.moves = G.moves \o step[0],
                 !.white_king_location =
                     IF probed /\ ally_c = "w" THEN <<r, c>> ELSE @,
                 !.black_king_location =
                     IF probed /\ ally_c = "b" THEN <<r, c>> ELSE @]
    IN  get_castling_moves(gs, r, c, G1)

\* The dispatch through self.move_functions on the type of the piece.
move_functions(piece_type, gs, r, c, G) ==
    CASE piece_type = "P" -> get_pawn_moves(gs, r, c, G)
      [] piece_type = "N" -> get_knight_moves(gs, r, c, G)
      [] piece_type = "B" -> get_bishop_moves(gs, r, c, G)
      [] piece_type = "R" -> get_rook_moves(gs, r, c, G)
      [] piece_type = "Q" -> get_queen_moves(gs, r, c, G)
      [] piece_type = "K" -> get_king_moves(gs, r, c, G)

\* The scan of get_all_possible_moves over the squares left (numbers
\* 8 * r + c, taken in scan order) that hold a piece of the side to move;
\* an IndexError ends it.
RECURSIVE PossibleMovesFrom(_, _, _)
PossibleMovesFrom(gs, left, G) ==
    IF left = {} \/ G.raised
    THEN G
    ELSE LET k == CHOOSE k \in left : \A x \in left : k <= x
             r == k \div 8
             c == k % 8
         IN  PossibleMovesFrom(gs, left \ {k},
                 move_functions(PieceType(gs.board[r][c]), gs, r, c, G))

\* GameState.get_all_possible_moves(), with the pins and king caches as
\* they stand in G.
get_all_possible_moves(gs, G) ==
    PossibleMovesFrom(gs,
        {k \in 0..63 :
            \/ (gs.white_to_move /\ PieceColor(gs.board[k \div 8][k % 8]) = "w")
            \/ ((~gs.white_to_move) /\ PieceColor(gs.board[k \div 8][k % 8]) = "b")},
        [G EXCEPT !.moves = <<>>])

\* ------------------------------------------- legal-move filter, classifier
\* The filter of a single check when every square is taken to resolve it.
valid_squares_all(b, king_r, king_c, check_info) == (0..7) \X (0..7)

\* The squares a non-king move may end on when exactly one piece checks:
\* the checker's square for a knight, else the squares from the king along
\* the direction of the check up to the checker's square.
valid_squares(b, king_r, king_c, check_info) ==
    LET check_r == check_info[1]
        check_c == check_info[2]
        square(n) == <<king_r + n * check_info[3], king_c + n * check_info[4]>>
        hits == {n \in 1..7 : square(n) = <<check_r, check_c>>}
        last == IF hits = {} THEN 7 ELSE CHOOSE n \in hits : \A k \in hits : n <= k
    IN  IF PieceType(b[check_r][check_c]) = "N"
        THEN {<<check_r, check_c>>}
        ELSE {square(n) : n \in 1..last}

\* The end of get_all_valid_moves without the reset of the checkmate flag
\* when moves were assembled.
SearchForMates_no_reset(gs, found, G, assembled, material) ==
    [ gs |-> [ gs EXCEPT
                 !.current_player_is_in_check = found.current_player_is_in_check,
                 !.checks = found.checks,
                 !.pins = G.pins,
                 !.white_king_location = G.white_king_location,
                 !.black_king_location = G.black_king_location,
                 !.checkmate =
                     IF Len(assembled) = 0
                     THEN (IF found.current_player_is_in_check THEN TRUE ELSE @)
                     ELSE @,
                 !.stalemate = material ],
      moves |-> IF material THEN <<>> ELSE assembled,
      assembled |-> assembled,
      raised |-> FALSE ]

\* The end of get_all_valid_moves: the mate flags, the material
\* classifier and the list returned, from the list assembled.
SearchForMates(gs, found, G, assembled, material) ==
    [ gs |-> [ gs EXCEPT
                 !.current_player_is_in_check = found.current_player_is_in_check,
                 !.checks = found.checks,
                 !.pins = G.pins,
                 !.white_king_location = G.white_king_location,
                 !.black_king_location = G.black_king_location,
                 !.checkmate =
                     IF Len(assembled) = 0
                     THEN (IF found.current_player_is_in_check THEN TRUE ELSE @)
                     ELSE FALSE,
                 !.stalemate = material ],
      moves |-> IF material THEN <<>> ELSE assembled,
      assembled |-> assembled,
      raised |-> FALSE ]

\* The middle of get_all_valid_moves: the moves generated, pruned when
\* exactly one piece checks; an IndexError in the generators ends the call.
PruneMoves(gs, found, king_r, king_c, G) ==
    IF G.raised
    THEN [ gs |-> [ gs EXCEPT
                      !.current_player_is_in_check = found.current_player_is_in_check,
                      !.checks = found.checks,
                      !.pins = G.pins,
                      !.white_king_location = G.white_king_location,
                      !.black_king_location = G.black_king_location ],
           moves |-> <<>>,
           assembled |-> <<>>,
           raised |-> TRUE ]
    ELSE SearchForMates(gs, found, G,
             IF found.current_player_is_in_check /\ Len(found.checks) = 1
             THEN LET squares == valid_squares(gs.board, king_r, king_c, found.checks[1])
                      keeps(m) == PieceType(m.piece_moved) = "K"
                                  \/ <<m.end_r, m.end_c>> \in squares
                  IN  SelectSeq(G.moves, keeps)
             ELSE G.moves,
             search_for_material_stalemate(gs.board))

\* The head of get_all_valid_moves, from what the detector found: all the
\* moves, or the king's alone when more than one piece checks.
GenerateMoves(gs, found) ==
    LET king_r == IF gs.white_to_move
                  THEN gs.white_king_location[1] ELSE gs.black_king_location[1]
        king_c == IF gs.white_to_move
                  THEN gs.white_king_location[2] ELSE gs.black_king_location[2]
        G0 == GenState(<<>>, found.pins, gs.white_king_location, gs.black_king_location)
    IN  PruneMoves(gs, found, king_r, king_c,
            IF found.current_player_is_in_check /\ Len(found.checks) # 1
            THEN get_king_moves(gs, king_r, king_c, G0)
            ELSE get_all_possible_moves(gs, G0))

\* GameState.get_all_valid_moves(): the GameState it leaves behind, the
\* list it returns, the list it had assembled before the material
\* classifier was asked, and whether it ended in an IndexError instead.
get_all_valid_moves(gs) ==
    GenerateMoves(gs,
        search_for_pins_and_checks(gs.board, gs.white_to_move,
                                   gs.white_king_location, gs.black_king_location))

\* ---------------------------------------------------------- prepared games
\* Each prepared game is a list of moves <<start_r, start_c, end_r, end_c>>
\* from the new game; a move of it is made only when valid_moves lists it.
\* 1. f3 e5 2. Kf2 Qh4+ 3. Ke1: the king steps back along the line of a check.
king_retreat ==
    << <<6, 5, 5, 5>>, <<1, 4, 3, 4>>, <<7, 4, 6, 5>>, <<0, 3, 4, 7>>, <<6, 5, 7, 4>> >>

\* 1. f4 e5 2. Nf3 Bc5 3. g3 d6 4. Bg2 Nf6 5. O-O: the bishop on c5 looks at g1.
castle_through ==
    << <<6, 5, 4, 5>>, <<1, 4, 3, 4>>, <<7, 6, 5, 5>>, <<0, 5, 3, 2>>, <<6, 6, 5, 6>>,
       <<1, 3, 2, 3>>, <<7, 5, 6, 6>>, <<0, 6, 2, 5>>, <<7, 4, 7, 6>> >>

\* 1. e4 a6 2. e5 d5: the pawn on e5 may take the pawn on d5 in passing.
en_passant ==
    << <<6, 4, 4, 4>>, <<1, 0, 2, 0>>, <<4, 4, 3, 4>>, <<1, 3, 3, 3>> >>

\* 1. h4 g5 2. hxg5 h6 3. gxh6 a6 4. h7 a5: the pawn on h7 may take on g8.
promotion ==
    << <<6, 7, 4, 7>>, <<1, 6, 3, 6>>, <<4, 7, 3, 6>>, <<1, 7, 2, 7>>, <<3, 6, 2, 7>>,
       <<1, 0, 2, 0>>, <<2, 7, 1, 7>>, <<2, 0, 3, 0>> >>

\* 1. e4 e5 2. Nf3 Nf6 3. Bc4 Bc5: either side may castle king-side.
castle_short ==
    << <<6, 4, 4, 4>>, <<1, 4, 3, 4>>, <<7, 6, 5, 5>>, <<0, 6, 2, 5>>, <<7, 5, 4, 2>>,
       <<0, 5, 3, 2>> >>

\* 1. d4 d5 2. Bf4 Bf5 3. Nc3 Nc6 4. Qd2 Qd7: either side may castle queen-side.
castle_long ==
    << <<6, 3, 4, 3>>, <<1, 3, 3, 3>>, <<7, 2, 4, 5>>, <<0, 2, 3, 5>>, <<7, 1, 5, 2>>,
       <<0, 1, 2, 2>>, <<7, 3, 6, 3>>, <<0, 3, 1, 3>> >>

\* 1. b3 g6 2. Bb2 a6: the bishop on b2 may take the rook on h8.
rook_capture ==
    << <<6, 1, 5, 1>>, <<1, 6, 2, 6>>, <<7, 2, 6, 1>>, <<1, 0, 2, 0>> >>

\* 1. e4 a6 2. e5 a5 3. Ke2 a4 4. Ke3 a3 5. Ke4 d5+: the pawn that checks
\* the king has just advanced two squares beside the pawn on e5.
en_passant_check ==
    << <<6, 4, 4, 4>>, <<1, 0, 2, 0>>, <<4, 4, 3, 4>>, <<2, 0, 3, 0>>, <<7, 4, 6, 4>>,
       <<3, 0, 4, 0>>, <<6, 4, 5, 4>>, <<4, 0, 5, 0>>, <<5, 4, 4, 4>>, <<1, 3, 3, 3>> >>

\* 1. f3 e5 2. g4 Qh4: the fool's mate.
fools_mate ==
    << <<6, 5, 5, 5>>, <<1, 4, 3, 4>>, <<6, 6, 4, 6>>, <<0, 3, 4, 7>> >>

\* 1. e3 a5 2. Qh5 Ra6 3. Qxa5 h5 4. h4 Rah6 5. Qxc7 f6 6. Qxd7+ Kf7
\* 7. Qxb7 Qd3 8. Qxb8 Qh7 9. Qxc8 Kg6 10. Qe6: Black, not in check, has
\* no legal move.
no_legal_move ==
    << <<6, 4, 5, 4>>, <<1, 0, 3, 0>>, <<7, 3, 3, 7>>, <<0, 0, 2, 0>>, <<3, 7, 3, 0>>,
       <<1, 7, 3, 7>>, <<6, 7, 4, 7>>, <<2, 0, 2, 7>>, <<3, 0, 1, 2>>, <<1, 5, 2, 5>>,
       <<1, 2, 1, 3>>, <<0, 4, 1, 5>>, <<1, 3, 1, 1>>, <<0, 3, 5, 3>>, <<1, 1, 0, 1>>,
       <<5, 3, 1, 7>>, <<0, 1, 0, 2>>, <<1, 5, 2, 6>>, <<0, 2, 2, 4>> >>

\* 1. h4 g5 2. hxg5 h6 3. gxh6 a6 4. h7 a5 5. hxg8 a4 6. (g8)xh8 a3 7. e3
\* Bg7: when "K" is typed at the prompt of move 5, a second white king
\* stands on g8, attacked by the rook on h8; it then takes the rook and
\* is checked by the bishop.
second_king ==
    << <<6, 7, 4, 7>>, <<1, 6, 3, 6>>, <<4, 7, 3, 6>>, <<1, 7, 2, 7>>, <<3, 6, 2, 7>>,
       <<1, 0, 2, 0>>, <<2, 7, 1, 7>>, <<2, 0, 3, 0>>, <<1, 7, 0, 6>>, <<3, 0, 4, 0>>,
       <<0, 6, 0, 7>>, <<4, 0, 5, 0>>, <<6, 4, 5, 4>>, <<0, 5, 1, 6>> >>

\* 1. e4 b5 2. Bxb5 h5 3. Bxd7+ Nxd7 4. Na3 h4 5. g4 hxg3 6. Nh3 gxf2+
\* 7. Kxf2 Ndf6 8. Rg1 Rxh3 9. Rxg7 Qxd2+ 10. Kg1 Qxh2+ 11. Kf1 Rxa3
\* 12. bxa3 Qxc2 13. Rxf7 Qxc1 14. Rxe7+ Nxe7 15. Rxc1 Bg4 16. Rxc7 Bh5
\* 17. Rxa7 Bxd1 18. Rxa8+ Nc8 19. Rxc8+ Ke7 20. Rxf8 Kxf8 21. Kg1 Nxe4
\* 22. Kg2 Kf7 23. Kh3 Nd2 24. a4 Bxa4 25. Kg3 Nb3 26. axb3 Bxb3: the
\* kings and a black bishop are left, White to move.
lone_bishop ==
    << <<6, 4, 4, 4>>, <<1, 1, 3, 1>>, <<7, 5, 3, 1>>, <<1, 7, 3, 7>>, <<3, 1, 1, 3>>,
       <<0, 1, 1, 3>>, <<7, 1, 5, 0>>, <<3, 7, 4, 7>>, <<6, 6, 4, 6>>, <<4, 7, 5, 6>>,
       <<7, 6, 5, 7>>, <<5, 6, 6, 5>>, <<7, 4, 6, 5>>, <<1, 3, 2, 5>>, <<7, 7, 7, 6>>,
       <<0, 7, 5, 7>>, <<7, 6, 1, 6>>, <<0, 3, 6, 3>>, <<6, 5, 7, 6>>, <<6, 3, 6, 7>>,
       <<7, 6, 7, 5>>, <<5, 7, 5, 0>>, <<6, 1, 5, 0>>, <<6, 7, 6, 2>>, <<1, 6, 1, 5>>,
       <<6, 2, 7, 2>>, <<1, 5, 1, 4>>, <<0, 6, 1, 4>>, <<7, 0, 7, 2>>, <<0, 2, 4, 6>>,
       <<7, 2, 1, 2>>, <<4, 6, 3, 7>>, <<1, 2, 1, 0>>, <<3, 7, 7, 3>>, <<1, 0, 0, 0>>,
       <<1, 4, 0, 2>>, <<0, 0, 0, 2>>, <<0, 4, 1, 4>>, <<0, 2, 0, 5>>, <<1, 4, 0, 5>>,
       <<7, 5, 7, 6>>, <<2, 5, 4, 4>>, <<7, 6, 6, 6>>, <<0, 5, 1, 5>>, <<6, 6, 5, 7>>,
       <<4, 4, 6, 3>>, <<5, 0, 4, 0>>, <<7, 3, 4, 0>>, <<5, 7, 5, 6>>, <<6, 3, 5, 1>>,
       <<6, 0, 5, 1>>, <<4, 0, 5, 1>> >>

\* e2e3 b8c6 d1e2 c6e5 d2d3 e5d3 c2d3 e7e5 e2g4 b7b5 g4g7 f8g7 b1c3
\* e5e4 c3b5 e4d3 b5a7 g7b2 a7c8 b2a1 f1d3 a8a2 d3h7 h8h7 e1d1 a2f2
\* c1d2 h7h2 h1h2 f2g2 h2g2 d8c8 g2g8 e8e7 g8c8 a1d4 c8c7 d4e3 d2e3
\* e7d8 c7d7 d8d7 g1f3 d7e8 e3h6 e8d8 h6g7 d8e7 d1e1 f7f6 g7f6 e7f6:
\* the kings and a white knight are left, White to move.
lone_knight ==
    << <<6, 4, 5, 4>>, <<0, 1, 2, 2>>, <<7, 3, 6, 4>>, <<2, 2, 3, 4>>, <<6, 3, 5, 3>>,
       <<3, 4, 5, 3>>, <<6, 2, 5, 3>>, <<1, 4, 3, 4>>, <<6, 4, 4, 6>>, <<1, 1, 3, 1>>,
       <<4, 6, 1, 6>>, <<0, 5, 1, 6>>, <<7, 1, 5, 2>>, <<3, 4, 4, 4>>, <<5, 2, 3, 1>>,
       <<4, 4, 5, 3>>, <<3, 1, 1, 0>>, <<1, 6, 6, 1>>, <<1, 0, 0, 2>>, <<6, 1, 7, 0>>,
       <<7, 5, 5, 3>>, <<0, 0, 6, 0>>, <<5, 3, 1, 7>>, <<0, 7, 1, 7>>, <<7, 4, 7, 3>>,
       <<6, 0, 6, 5>>, <<7, 2, 6, 3>>, <<1, 7, 6, 7>>, <<7, 7, 6, 7>>, <<6, 5, 6, 6>>,
       <<6, 7, 6, 6>>, <<0, 3, 0, 2>>, <<6, 6, 0, 6>>, <<0, 4, 1, 4>>, <<0, 6, 0, 2>>,
       <<7, 0, 4, 3>>, <<0, 2, 1, 2>>, <<4, 3, 5, 4>>, <<6, 3, 5, 4>>, <<1, 4, 0, 3>>,
       <<1, 2, 1, 3>>, <<0, 3, 1, 3>>, <<7, 6, 5, 5>>, <<1, 3, 0, 4>>, <<5, 4, 2, 7>>,
       <<0, 4, 0, 3>>, <<2, 7, 1, 6>>, <<0, 3, 1, 4>>, <<7, 3, 7, 4>>, <<1, 5, 2, 5>>,
       <<1, 6, 2, 5>>, <<1, 4, 2, 5>> >>

\* 1. e4 d5 2. exd5 Kd7 3. Qg4+ Kd6 4. Qxc8 Kc5 5. a3: the black pawn on c7
\* stands between its king on c5 and the white queen on c8.
pawn_pin ==
    << <<6, 4, 4, 4>>, <<1, 3, 3, 3>>, <<4, 4, 3, 3>>, <<0, 4, 1, 3>>, <<7, 3, 4, 6>>,
       <<1, 3, 2, 3>>, <<4, 6, 0, 2>>, <<2, 3, 3, 2>>, <<6, 0, 5, 0>> >>

\* 1. Nf3 e6 2. Ne5 Be7 3. e3 Nh6 4. Bb5 a5 5. Nxd7 b6 6. Nf6+: the knight
\* checks and uncovers the check of the bishop on b5; Black still has
\* the right to castle king-side and f8, g8 are empty.
double_check ==
    << <<7, 6, 5, 5>>, <<1, 4, 2, 4>>, <<5, 5, 3, 4>>, <<0, 5, 1, 4>>, <<6, 4, 5, 4>>,
       <<0, 6, 2, 7>>, <<7, 5, 3, 1>>, <<1, 0, 3, 0>>, <<3, 4, 1, 3>>, <<1, 1, 2, 1>>,
       <<1, 3, 2, 5>> >>

\* 1. d4 d5 2. Bf4 Bf5 3. Na3 Nc6 4. Qd2 Qd7 5. c4 a6: White may castle
\* queen-side while the bishop on f5 attacks b1.
castle_long_b1 ==
    << <<6, 3, 4, 3>>, <<1, 3, 3, 3>>, <<7, 2, 4, 5>>, <<0, 2, 3, 5>>, <<7, 1, 5, 0>>,
       <<0, 1, 2, 2>>, <<7, 3, 6, 3>>, <<0, 3, 1, 3>>, <<6, 2, 4, 2>>, <<1, 0, 2, 0>> >>

\* 1. h4 g5 2. hxg5 h6 3. gxh6 e6 4. h7 Bg7 5. hxg8 Qf6 6. a3 Ke7 7. Rxh8
\* Kd6: when "K" is typed at the prompt of move 5, a second white king
\* stands on g8 with f8, e8 and d8 empty and White's queen-side right
\* held.
second_king_castles ==
    << <<6, 7, 4, 7>>, <<1, 6, 3, 6>>, <<4, 7, 3, 6>>, <<1, 7, 2, 7>>, <<3, 6, 2, 7>>,
       <<1, 4, 2, 4>>, <<2, 7, 1, 7>>, <<0, 5, 1, 6>>, <<1, 7, 0, 6>>, <<0, 3, 2, 5>>,
       <<6, 0, 5, 0>>, <<0, 4, 1, 4>>, <<7, 7, 0, 7>>, <<1, 4, 2, 3>> >>

\* The empty game leaves the player free from the first move.
\* 1. h4 a5 2. h5 a4 3. h6 a3 4. hxg7 axb2 5. Nc3 Nf6 6. g8=? h6: a white pawn
\* on g7 (g8 empty, pieces on f8 and h8) and a black pawn on b2 (b1 empty,
\* pieces on a1 and c1), each one step from its last row; the white pawn
\* then promotes on g8.
both_promote ==
    << <<6, 7, 4, 7>>, <<1, 0, 3, 0>>, <<4, 7, 3, 7>>, <<3, 0, 4, 0>>,
       <<3, 7, 2, 7>>, <<4, 0, 5, 0>>, <<2, 7, 1, 6>>, <<5, 0, 6, 1>>,
       <<7, 1, 5, 2>>, <<0, 6, 2, 5>>, <<1, 6, 0, 6>>, <<1, 7, 2, 7>> >>

\* 1. e4 a5 2. e5 a4 3. Ke2 Ra5 4. Ke3 b6 5. Kf4 c6 6. Kg5 d5: the white
\* king on g5, the white pawn on e5 and the black pawn just advanced to d5
\* stand on one row with the black rook on a5.
en_passant_rank ==
    << <<6, 4, 4, 4>>, <<1, 0, 3, 0>>, <<4, 4, 3, 4>>, <<3, 0, 4, 0>>,
       <<7, 4, 6, 4>>, <<0, 0, 3, 0>>, <<6, 4, 5, 4>>, <<1, 1, 2, 1>>,
       <<5, 4, 4, 5>>, <<1, 2, 2, 2>>, <<4, 5, 3, 6>>, <<1, 3, 3, 3>> >>

\* A game of 83 plies without promotion or castling, each move written
\* as its start and end square in the rank-file notation of
\* Move.get_rank_file:
\*   h2h3 b7b6 a2a3 g7g5 g2g4 f7f6 g1f3 f8g7 f3g5 f6g5 b2b3 g7a1
\*   h3h4 g5h4 h1h4 a1d4 h4h7 h8h7 f1h3 d4f2 e1f2 h7h3 d2d4 h3b3
\*   c2b3 a7a5 f2g3 d7d6 c1e3 c8g4 e3d2 g4e2 d2a5 e2d1 a5b6 a8a3
\*   b6c7 a3b3 g3f4 b3b1 c7d6 b1c1 d6b8 d8d4 f4g5 d4g7 g5f5 g7c3
\*   b8h2 c1c2 f5e6 c3f3 h2f4 c2c4 f4h6 f3e3 h6e3 d1g4 e6d5 c4f4
\*   e3f4 g4h3 d5c5 g8f6 f4g5 f6g8 g5e7 e8f7 c5d5 f7g7 e7d8 g7h8
\*   d8c7 g8f6 d5d6 h3f5 d6e7 f5h7 e7f7 f6d5 c7d8 d5f6 d8f6
\* The last move, the white bishop d8 taking the knight on f6, leaves
\* the white king on f7 and bishop on f6 against the black king on h8
\* and bishop on h7: Black is in check from f6 and has no move.
mate_by_capture ==
    << <<6, 7, 5, 7>>, <<1, 1, 2, 1>>, <<6, 0, 5, 0>>, <<1, 6, 3, 6>>, <<6, 6, 4, 6>>,
       <<1, 5, 2, 5>>, <<7, 6, 5, 5>>, <<0, 5, 1, 6>>, <<5, 5, 3, 6>>, <<2, 5, 3, 6>>,
       <<6, 1, 5, 1>>, <<1, 6, 7, 0>>, <<5, 7, 4, 7>>, <<3, 6, 4, 7>>, <<7, 7, 4, 7>>,
       <<7, 0, 4, 3>>, <<4, 7, 1, 7>>, <<0, 7, 1, 7>>, <<7, 5, 5, 7>>, <<4, 3, 6, 5>>,
       <<7, 4, 6, 5>>, <<1, 7, 5, 7>>, <<6, 3, 4, 3>>, <<5, 7, 5, 1>>, <<6, 2, 5, 1>>,
       <<1, 0, 3, 0>>, <<6, 5, 5, 6>>, <<1, 3, 2, 3>>, <<7, 2, 5, 4>>, <<0, 2, 4, 6>>,
       <<5, 4, 6, 3>>, <<4, 6, 6, 4>>, <<6, 3, 3, 0>>, <<6, 4, 7, 3>>, <<3, 0, 2, 1>>,
       <<0, 0, 5, 0>>, <<2, 1, 1, 2>>, <<5, 0, 5, 1>>, <<5, 6, 4, 5>>, <<5, 1, 7, 1>>,
       <<1, 2, 2, 3>>, <<7, 1, 7, 2>>, <<2, 3, 0, 1>>, <<0, 3, 4, 3>>, <<4, 5, 3, 6>>,
       <<4, 3, 1, 6>>, <<3, 6, 3, 5>>, <<1, 6, 5, 2>>, <<0, 1, 6, 7>>, <<7, 2, 6, 2>>,
       <<3, 5, 2, 4>>, <<5, 2, 5, 5>>, <<6, 7, 4, 5>>, <<6, 2, 4, 2>>, <<4, 5, 2, 7>>,
       <<5, 5, 5, 4>>, <<2, 7, 5, 4>>, <<7, 3, 4, 6>>, <<2, 4, 3, 3>>, <<4, 2, 4, 5>>,
       <<5, 4, 4, 5>>, <<4, 6, 5, 7>>, <<3, 3, 3, 2>>, <<0, 6, 2, 5>>, <<4, 5, 3, 6>>,
       <<2, 5, 0, 6>>, <<3, 6, 1, 4>>, <<0, 4, 1, 5>>, <<3, 2, 3, 3>>, <<1, 5, 1, 6>>,
       <<1, 4, 0, 3>>, <<1, 6, 0, 7>>, <<0, 3, 1, 2>>, <<0, 6, 2, 5>>, <<3, 3, 2, 3>>,
       <<5, 7, 3, 5>>, <<2, 3, 1, 4>>, <<3, 5, 1, 7>>, <<1, 4, 1, 5>>, <<2, 5, 3, 3>>,
       <<1, 2, 0, 3>>, <<3, 3, 2, 5>>, <<0, 3, 2, 5>> >>

Games ==
    { <<>>, king_retreat, castle_through, en_passant, promotion, castle_short,
      castle_long, rook_capture, en_passant_check, fools_mate, no_legal_move,
      second_king, lone_bishop, lone_knight,
      pawn_pin, double_check, castle_long_b1, second_king_castles,
      both_promote, en_passant_rank, mate_by_capture }

\* ------------------------------------------------------------ the program
\* The attributes of the GameState object of main(), the list valid_moves
\* and the flag move_made of main(), whether the program has ended in an
\* unhandled exception, and the prepared game the player follows.
\* For the properties: op names the calls made on the GameState last
\* ("new", "make", "make_undo" for an undo_move right after a make_move,
\* "undo_empty" for an undo_move that found the move log empty, "undo",
\* "query"; "compare" and "classify" where a function is called alone), before is the GameState as the last make_move found it
\* while op is "make" or "make_undo" and the GameState of the new game
\* otherwise, and rights_before lists, for every move of the move log, the
\* castling rights as make_move found them.
VARIABLES board, white_to_move, move_log, white_king_location,
          black_king_location, current_player_is_in_check, checks, pins,
          checkmate, stalemate, en_passant_possible, current_castling_rights,
          castling_rights_log, valid_moves, move_made, crashed, game, op, before,
          rights_before

engine_vars == << board, white_to_move, move_log, white_king_location,
                  black_king_location, current_player_is_in_check, checks, pins,
                  checkmate, stalemate, en_passant_possible,
                  current_castling_rights, castling_rights_log >>

vars == << engine_vars, valid_moves, move_made, crashed, game, op, before,
           rights_before >>

\* The GameState object as a record.
GS ==
    [ board |-> board,
      white_to_move |-> white_to_move,
      move_log |-> move_log,
      white_king_location |-> white_king_location,
      black_king_location |-> black_king_location,
      current_player_is_in_check |-> current_player_is_in_check,
      checks |-> checks,
      pins |-> pins,
      checkmate |-> checkmate,
      stalemate |-> stalemate,
      en_passant_possible |-> en_passant_possible,
      current_castling_rights |-> current_castling_rights,
      castling_rights_log |-> castling_rights_log ]

\* The GameState object becomes g.
Becomes(g) ==
    /\ board' = g.board
    /\ white_to_move' = g.white_to_move
    /\ move_log' = g.move_log
    /\ white_king_location' = g.white_king_location
    /\ black_king_location' = g.black_king_location
    /\ current_player_is_in_check' = g.current_player_is_in_check
    /\ checks' = g.checks
    /\ pins' = g.pins
    /\ checkmate' = g.checkmate
    /\ stalemate' = g.stalemate
    /\ en_passant_possible' = g.en_passant_possible
    /\ current_castling_rights' = g.current_castling_rights
    /\ castling_rights_log' = g.castling_rights_log

\* What can be typed at the promotion prompt (after upper-casing): nothing,
\* one of the four kinds asked for, or another letter.
PromotionTexts == {"", "Q", "R", "B", "N", "K"}

\* main(): gs = GameState(); valid_moves = gs.get_all_valid_moves()
Init ==
    \E first \in {get_all_valid_moves(NewGameState)} :
    /\ board = first.gs.board
    /\ white_to_move = first.gs.white_to_move
    /\ move_log = first.gs.move_log
    /\ white_king_location = first.gs.white_king_location
    /\ black_king_location = first.gs.black_king_location
    /\ current_player_is_in_check = first.gs.current_player_is_in_check
    /\ checks = first.gs.checks
    /\ pins = first.gs.pins
    /\ checkmate = first.gs.checkmate
    /\ stalemate = first.gs.stalemate
    /\ en_passant_possible = first.gs.en_passant_possible
    /\ current_castling_rights = first.gs.current_castling_rights
    /\ castling_rights_log = first.gs.castling_rights_log
    /\ valid_moves = first.moves
    /\ move_made = FALSE
    /\ crashed = FALSE
    /\ game \in Games
    /\ op = "new"
    /\ before = NewGameState
    /\ rights_before = <<>>

\* The player may make move m now: it is the next move of the prepared
\* game, or the game has been played out and free plies remain.
Playable(m) ==
    IF Len(move_log) < Len(game)
    THEN <<m.start_r, m.start_c, m.end_r, m.end_c>> = game[Len(move_log) + 1]
    ELSE Len(move_log) < Len(game) + MaxFree

\* Two clicks that name a move of valid_moves: gs.make_move(vmj), with txt
\* typed at the prompt when the move promotes.  The list is the one
\* computed for the current position (move_made is FALSE).
MakeMove ==
    /\ ~crashed
    /\ ~move_made
    /\ \E j \in 1..Len(valid_moves) :
          LET vmj == valid_moves[j] IN
          /\ OnBoard(vmj.start_r, vmj.start_c)
          /\ OnBoard(vmj.end_r, vmj.end_c)
          /\ Playable(vmj)
          /\ \E txt \in (IF vmj.is_pawn_promotion THEN PromotionTexts ELSE {""}) :
                \E made \in {make_move(GS, vmj, txt)} : Becomes(made)
    /\ move_made' = TRUE
    /\ op' = "make"
    /\ before' = GS
    /\ rights_before' = Append(rights_before, current_castling_rights)
    /\ UNCHANGED << valid_moves, crashed, game >>

\* The 'z' key: gs.undo_move()
UndoMove ==
    /\ ~crashed
    /\ \E undone \in {undo_move(GS)} : Becomes(undone)
    /\ move_made' = TRUE
    /\ op' = IF Len(move_log) = 0 THEN "undo_empty"
             ELSE IF op = "make" THEN "make_undo" ELSE "undo"
    /\ rights_before' = SubSeq(rights_before, 1, Len(rights_before) - 1)
    /\ before' = IF op = "make" THEN before ELSE NewGameState
    /\ UNCHANGED << valid_moves, crashed, game >>

\* The end of a pass of the main loop after a move was made or undone:
\* valid_moves = gs.get_all_valid_moves()
GetAllValidMoves ==
    /\ ~crashed
    /\ move_made
    /\ \E got \in {get_all_valid_moves(GS)} :
       /\ Becomes(got.gs)
       /\ crashed' = got.raised
       /\ valid_moves' = IF got.raised THEN valid_moves ELSE got.moves
    /\ move_made' = FALSE
    /\ op' = "query"
    /\ before' = NewGameState
    /\ UNCHANGED << game, rights_before >>

Next == MakeMove \/ UndoMove \/ GetAllValidMoves

Spec == Init /\ [][Next]_vars

\* ------------------------------------------------------ comparing moves
\* main() compares the Move built from two clicks with the moves of
\* valid_moves.  For Move.__eq__ alone: in the new game, valid_moves holds
\* one Move vmj of any coordinates, flagged or not, and the clicks are
\* left to the properties.
FlagChoices == {<<FALSE, FALSE, FALSE>>, <<TRUE, TRUE, TRUE>>}

InitCompare == Init /\ game = <<>>

CompareMoves ==
    /\ op = "new"
    /\ \E start_square \in (0..7) \X (0..7), end_square \in (0..7) \X (0..7),
          flags \in FlagChoices :
          valid_moves' = << Move(start_square, end_square, InitialBoard,
                                 flags[1], flags[2], flags[3]) >>
    /\ op' = "compare"
    /\ UNCHANGED << engine_vars, move_made, crashed, game, before, rights_before >>

MoveSpec == InitCompare /\ [][CompareMoves]_vars

\* ------------------------------------------------ classifying material
\* search_for_material_stalemate() reads the board alone.  For the
\* classifier alone: the kings stand on their home squares and at most
\* MaxMaterial other pieces stand on squares of MaterialSquares, two of
\* each parity of row + column; the classifier is asked once and its
\* verdict stored as get_all_valid_moves stores it.
MaxMaterial == 3

MaterialSquares == {<<2, 2>>, <<2, 3>>, <<5, 4>>, <<5, 5>>}

MaterialTokens == {"wB", "bB", "wN", "bN", "wP", "bR", "wQ"}

\* The board with the two kings and the pieces placed by placing.
MaterialBoard(placing) ==
    [r \in 0..7 |-> [c \in 0..7 |->
        IF <<r, c>> \in DOMAIN placing THEN placing[<<r, c>>]
        ELSE IF <<r, c>> = <<7, 4>> THEN "wK"
        ELSE IF <<r, c>> = <<0, 4>> THEN "bK"
        ELSE "--"]]

InitMaterial ==
    /\ \E squares \in SUBSET MaterialSquares :
          /\ Cardinality(squares) <= MaxMaterial
          /\ \E placing \in [squares -> MaterialTokens] :
                board = MaterialBoard(placing)
    /\ white_to_move = NewGameState.white_to_move
    /\ move_log = NewGameState.move_log
    /\ white_king_location = NewGameState.white_king_location
    /\ black_king_location = NewGameState.black_king_location
    /\ current_player_is_in_check = NewGameState.current_player_is_in_check
    /\ checks = NewGameState.checks
    /\ pins = NewGameState.pins
    /\ checkmate = NewGameState.checkmate
    /\ stalemate = NewGameState.stalemate
    /\ en_passant_possible = NewGameState.en_passant_possible
    /\ current_castling_rights = NewGameState.current_castling_rights
    /\ castling_rights_log = NewGameState.castling_rights_log
    /\ valid_moves = <<>>
    /\ move_made = TRUE
    /\ crashed = FALSE
    /\ game = <<>>
    /\ op = "new"
    /\ before = NewGameState
    /\ rights_before = <<>>

ClassifyMaterial ==
    /\ op = "new"
    /\ stalemate' = search_for_material_stalemate(board)
    /\ op' = "classify"
    /\ UNCHANGED << board, white_to_move, move_log, white_king_location,
                    black_king_location, current_player_is_in_check, checks, pins,
                    checkmate, en_passant_possible, current_castling_rights,
                    castling_rights_log, valid_moves, move_made, crashed, game,
                    before, rights_before >>

MaterialSpec == InitMaterial /\ [][ClassifyMaterial]_vars

\* ------------------------------------------------------------ the rules
\* The rules of chess the properties refer to, stated on a board alone.

\* Square (r, c) is attacked by a piece of colour by: a rook or queen along
\* a clear orthogonal line, a bishop or queen along a clear diagonal, a
\* knight, a pawn from its capturing diagonal, or an adjacent king.
Attacked(b, r, c, by) ==
    \/ \E j \in 0..7 : \E n \in 1..7 :
          LET rr == r + n * king_dirs[j][1]
              cc == c + n * king_dirs[j][2]
          IN  /\ OnBoard(rr, cc)
              /\ PieceColor(b[rr][cc]) = by
              /\ PieceType(b[rr][cc]) \in (IF j <= 3 THEN {"R", "Q"} ELSE {"B", "Q"})
              /\ \A k \in 1..(n - 1) :
                    b[r + k * king_dirs[j][1]][c + k * king_dirs[j][2]] = "--"
    \/ \E j \in 0..7 :
          /\ OnBoard(r + knight_dirs[j][1], c + knight_dirs[j][2])
          /\ b[r + knight_dirs[j][1]][c + knight_dirs[j][2]] = by \o "N"
    \/ \E j \in 0..7 :
          /\ OnBoard(r + king_dirs[j][1], c + king_dirs[j][2])
          /\ b[r + king_dirs[j][1]][c + king_dirs[j][2]] = by \o "K"
    \/ \E dc \in {-1, 1} :
          LET rr == IF by = "w" THEN r + 1 ELSE r - 1 IN
          /\ OnBoard(rr, c + dc)
          /\ b[rr][c + dc] = by \o "P"

\* The squares of board b that hold token t.
SquaresOf(b, t) == {sq \in (0..7) \X (0..7) : b[sq[1]][sq[2]] = t}

Other(color) == IF color = "w" THEN "b" ELSE "w"

\* The side to move, and the side that moved last.
Mover == IF white_to_move THEN "w" ELSE "b"

\* valid_moves is the list get_all_valid_moves returned for the position
\* as it stands.
Fresh == (~move_made) /\ (~crashed)

\* The moves of valid_moves that two clicks can name.
Listed == {valid_moves[j] : j \in 1..Len(valid_moves)}

Clickable == {m \in Listed : OnBoard(m.start_r, m.start_c) /\ OnBoard(m.end_r, m.end_c)}

\* Move m is a pawn's advance of two rows.
TwoSquareAdvance(m) == PieceType(m.piece_moved) = "P" /\ Abs(m.start_r - m.end_r) = 2

LastMove == move_log[Len(move_log)]

\* The squares a piece of colour me on (r, c) may go to by the way its kind
\* moves, captures of enemy pieces included, as << r, c, to_r, to_c, kind >>.
RefPieceMoves(b, me, r, c) ==
    LET t == PieceType(b[r][c])
        fwd == IF me = "w" THEN -1 ELSE 1
        home == IF me = "w" THEN 6 ELSE 1
        free(rr, cc) == OnBoard(rr, cc) /\ b[rr][cc] = "--"
        foe(rr, cc) == OnBoard(rr, cc) /\ PieceColor(b[rr][cc]) = Other(me)
        open(rr, cc) == free(rr, cc) \/ foe(rr, cc)
        lines == IF t = "R" THEN 0..3 ELSE IF t = "B" THEN 4..7
                 ELSE IF t = "Q" THEN 0..7 ELSE {}
    IN  IF t = "P"
        THEN {<<r, c, r + fwd, c, "move">> : x \in {y \in {1} : free(r + fwd, c)}}
             \cup {<<r, c, r + 2 * fwd, c, "move">> :
                       x \in {y \in {1} : r = home /\ free(r + fwd, c)
                                                      /\ free(r + 2 * fwd, c)}}
             \cup {<<r, c, r + fwd, c + dc, "move">> :
                       dc \in {d \in {-1, 1} : foe(r + fwd, c + d)}}
        ELSE IF t = "N"
        THEN {<<r, c, r + knight_dirs[j][1], c + knight_dirs[j][2], "move">> :
                 j \in {i \in 0..7 : open(r + knight_dirs[i][1], c + knight_dirs[i][2])}}
        ELSE IF t = "K"
        THEN {<<r, c, r + king_dirs[j][1], c + king_dirs[j][2], "move">> :
                 j \in {i \in 0..7 : open(r + king_dirs[i][1], c + king_dirs[i][2])}}
        ELSE {<<r, c, r + jn[2] * king_dirs[jn[1]][1], c + jn[2] * king_dirs[jn[1]][2], "move">> :
                 jn \in {x \in lines \X (1..7) :
                            /\ open(r + x[2] * king_dirs[x[1]][1], c + x[2] * king_dirs[x[1]][2])
                            /\ \A k \in 1..(x[2] - 1) :
                                  free(r + k * king_dirs[x[1]][1], c + k * king_dirs[x[1]][2])}}

\* The en-passant captures the history allows: the last move was a
\* two-square advance of an enemy pawn that now stands beside a pawn of me.
RefEnPassant(b, me, log) ==
    IF Len(log) = 0 THEN {}
    ELSE LET last == log[Len(log)] IN
         IF TwoSquareAdvance(last) /\ PieceColor(last.piece_moved) = Other(me)
         THEN {<<last.end_r, c, (last.start_r + last.end_r) \div 2, last.end_c, "ep">> :
                  c \in {x \in {last.end_c - 1, last.end_c + 1} :
                            OnBoard(last.end_r, x) /\ b[last.end_r][x] = me \o "P"}}
         ELSE {}

\* The castling moves the history allows: king and rook stand on their
\* home squares and no move of the history started or ended there, the
\* squares between them are empty, and the king neither stands on, nor
\* crosses, nor lands on an attacked square.
RefCastling(b, me, log) ==
    LET r == IF me = "w" THEN 7 ELSE 0
        untouched(c) == \A i \in 1..Len(log) :
                            /\ <<log[i].start_r, log[i].start_c>> # <<r, c>>
                            /\ <<log[i].end_r, log[i].end_c>> # <<r, c>>
        safe(c) == ~Attacked(b, r, c, Other(me))
    IN  {<<r, 4, r, 6, "castle">> :
            x \in {y \in {1} :
                      /\ b[r][4] = me \o "K" /\ b[r][7] = me \o "R"
                      /\ untouched(4) /\ untouched(7)
                      /\ b[r][5] = "--" /\ b[r][6] = "--"
                      /\ safe(4) /\ safe(5) /\ safe(6)}}
        \cup
        {<<r, 4, r, 2, "castle">> :
            x \in {y \in {1} :
                      /\ b[r][4] = me \o "K" /\ b[r][0] = me \o "R"
                      /\ untouched(4) /\ untouched(0)
                      /\ b[r][1] = "--" /\ b[r][2] = "--" /\ b[r][3] = "--"
                      /\ safe(4) /\ safe(3) /\ safe(2)}}

\* The board after move mv of colour me; a pawn that reaches the last row
\* becomes a queen.
RefApply(b, me, mv) ==
    LET t == b[mv[1]][mv[2]]
        landed == IF PieceType(t) = "P" /\ mv[3] \in {0, 7} THEN me \o "Q" ELSE t
    IN  [rr \in 0..7 |-> [cc \in 0..7 |->
            IF <<rr, cc>> = <<mv[3], mv[4]>> THEN landed
            ELSE IF <<rr, cc>> = <<mv[1], mv[2]>> THEN "--"
            ELSE IF mv[5] = "ep" /\ <<rr, cc>> = <<mv[1], mv[4]>> THEN "--"
            ELSE IF mv[5] = "castle" /\ mv[4] = 6 /\ <<rr, cc>> = <<mv[1], 7>> THEN "--"
            ELSE IF mv[5] = "castle" /\ mv[4] = 6 /\ <<rr, cc>> = <<mv[1], 5>> THEN me \o "R"
            ELSE IF mv[5] = "castle" /\ mv[4] = 2 /\ <<rr, cc>> = <<mv[1], 0>> THEN "--"
            ELSE IF mv[5] = "castle" /\ mv[4] = 2 /\ <<rr, cc>> = <<mv[1], 3>> THEN me \o "R"
            ELSE b[rr][cc]]]

\* Move mv of colour me leaves no king of me attacked.
RefKingSafe(after, me) ==
    \A k \in SquaresOf(after, me \o "K") : ~Attacked(after, k[1], k[2], Other(me))

\* The legal moves of colour me on board b after the moves of log.
RefLegalMoves(b, me, log) ==
    {mv \in UNION {RefPieceMoves(b, me, sq[1], sq[2]) :
                      sq \in {x \in (0..7) \X (0..7) : PieceColor(b[x[1]][x[2]]) = me}}
               \cup RefEnPassant(b, me, log) \cup RefCastling(b, me, log) :
        RefKingSafe(RefApply(b, me, mv), me)}

\* What the code calls a position.
Position(g) ==
    << g.board, g.current_castling_rights, g.en_passant_possible, g.white_to_move,
       g.white_king_location, g.black_king_location >>

\* --------------------------------------------------------------- claims

\* C1: make_move(M) for a listed move M, followed at once by undo_move(),
\* leaves the board, the castling rights, the en-passant target, the side
\* to move and both king caches as they were before the move.
C1_RoundTrip == (op = "make_undo") => (Position(GS) = Position(before))

\* C2: no listed move, once made, leaves the mover's own king attacked.
C2_NoSelfCheck ==
    Fresh =>
        \A m \in Clickable :
            \A k \in SquaresOf(make_move(GS, m, "").board, Mover \o "K") :
                ~Attacked(make_move(GS, m, "").board, k[1], k[2], Other(Mover))

\* C3: when the material classifier declares no draw, every move that
\* obeys the piece-movement rules, castling and en passant included, and
\* leaves the mover's king unattacked is on the list.
C3_Completeness ==
    (Fresh /\ ~search_for_material_stalemate(board)) =>
        \A mv \in RefLegalMoves(board, Mover, move_log) :
            \E m \in Listed : <<m.start_r, m.start_c, m.end_r, m.end_c>> = SubSeq(mv, 1, 4)

\* C4: the board holds exactly one white king and exactly one black king.
C4_OneKingEach ==
    /\ Cardinality(SquaresOf(board, "wK")) = 1
    /\ Cardinality(SquaresOf(board, "bK")) = 1

\* C5: after every completed call the king caches name the squares the
\* kings stand on.
C5_KingCache ==
    (~crashed) =>
        /\ board[white_king_location[1]][white_king_location[2]] = "wK"
        /\ board[black_king_location[1]][black_king_location[2]] = "bK"

\* C6: a castling move is listed only if the king is not attacked, the
\* right is set, the squares between king and rook are empty, and the
\* two squares the king crosses or lands on are not attacked.
C6_CastlingSound ==
    Fresh =>
        \A m \in Listed :
            m.is_castling =>
                LET r == m.start_r
                    c == m.start_c
                    step == IF m.end_c > m.start_c THEN 1 ELSE -1
                    right == IF white_to_move
                             THEN (IF step = 1 THEN current_castling_rights.wks
                                   ELSE current_castling_rights.wqs)
                             ELSE (IF step = 1 THEN current_castling_rights.bks
                                   ELSE current_castling_rights.bqs)
                    between == IF step = 1 THEN {c + 1, c + 2} ELSE {c - 1, c - 2, c - 3}
                IN  /\ ~Attacked(board, r, c, Other(Mover))
                    /\ right
                    /\ \A x \in between : OnBoard(r, x) /\ board[r][x] = "--"
                    /\ ~Attacked(board, r, c + step, Other(Mover))
                    /\ ~Attacked(board, r, c + 2 * step, Other(Mover))

\* C7: make_move never sets a castling right that was cleared, the query
\* leaves the rights alone, and undo_move sets them to what they were
\* before the move it undoes.
C7_RightsMonotone ==
    [][ /\ (Len(move_log') > Len(move_log)) =>
              /\ current_castling_rights'.wks => current_castling_rights.wks
              /\ current_castling_rights'.wqs => current_castling_rights.wqs
              /\ current_castling_rights'.bks => current_castling_rights.bks
              /\ current_castling_rights'.bqs => current_castling_rights.bqs
        /\ (Len(move_log') = Len(move_log)) =>
              current_castling_rights' = current_castling_rights
        /\ (Len(move_log') < Len(move_log)) =>
              current_castling_rights' = rights_before[Len(rights_before)]
      ]_vars

\* C7 witness: make_move has acted on a position in which a right was
\* already lost.
C7_Witness ==
    /\ op = "make"
    /\ ~before.current_castling_rights.wks
    /\ ~current_castling_rights.wks

\* C8: an en-passant capture is listed only when the last move of the log
\* is a two-square advance of an enemy pawn that stands beside the
\* capturing pawn, and the capture ends on the square that pawn skipped.
C8_EnPassantWindow ==
    Fresh =>
        \A m \in Listed :
            m.is_en_passant =>
                /\ Len(move_log) > 0
                /\ TwoSquareAdvance(LastMove)
                /\ LastMove.piece_moved = Other(Mover) \o "P"
                /\ m.piece_moved = Mover \o "P"
                /\ <<LastMove.end_r, LastMove.end_c>> = <<m.start_r, m.end_c>>
                /\ board[m.start_r][m.end_c] = Other(Mover) \o "P"
                /\ Abs(m.end_c - m.start_c) = 1
                /\ <<m.end_r, m.end_c>> =
                       <<(LastMove.start_r + LastMove.end_r) \div 2, LastMove.end_c>>

\* C8 witness: an en-passant capture is on the list.
C8_Witness == Fresh /\ \E m \in Listed : m.is_en_passant

\* C9: make_move leaves the midpoint of the move as the en-passant target
\* exactly when the move was a pawn's two-square advance, and no target
\* otherwise; and in every state a target is there only if the last move
\* of the log is a two-square pawn advance with that midpoint.
C9_EnPassantTarget ==
    /\ (op = "make") =>
          en_passant_possible =
              (IF TwoSquareAdvance(LastMove)
               THEN <<(LastMove.start_r + LastMove.end_r) \div 2, LastMove.end_c>>
               ELSE <<>>)
    /\ (en_passant_possible # <<>>) =>
          /\ Len(move_log) > 0
          /\ TwoSquareAdvance(LastMove)
          /\ en_passant_possible =
                 <<(LastMove.start_r + LastMove.end_r) \div 2, LastMove.end_c>>

\* C9 witness: a target is there after an undo_move.
C9_Witness == op \in {"undo", "make_undo"} /\ en_passant_possible # <<>>

\* C10: the castling-rights log is one longer than the move log.
C10_LogLengths == Len(castling_rights_log) = Len(move_log) + 1

\* C10 witness: undo_move has taken back the only move of the log, and
\* both logs are back at their first lengths.
C10_Witness ==
    op \in {"undo", "make_undo"} /\ Len(move_log) = 0 /\ Len(castling_rights_log) = 1

\* C11: undo_move called when the move log is empty changes neither the
\* board, nor the side to move, nor the king caches, nor the castling
\* rights and their log, nor the move log, nor the en-passant target, and
\* raises no error.
C11_UndoEmpty ==
    [][ (op' = "undo_empty" /\ Len(move_log) = 0) =>
            /\ UNCHANGED << board, white_to_move, white_king_location,
                            black_king_location, current_castling_rights,
                            castling_rights_log, move_log, en_passant_possible >>
            /\ ~crashed'
      ]_vars

\* C11 witness: undo_move has been called on an empty move log and the
\* new game stands as it was.
C11_Witness ==
    /\ op = "undo_empty"
    /\ board = InitialBoard
    /\ white_to_move
    /\ move_log = <<>>
    /\ ~crashed

\* The coordinates of the moves of the move log.
Played == [i \in 1..Len(move_log) |->
              <<move_log[i].start_r, move_log[i].start_c,
                move_log[i].end_r, move_log[i].end_c>>]

\* C12: when get_all_valid_moves assembles no move while the side to move
\* is in check it returns an empty list and leaves the checkmate flag
\* TRUE; when it assembles a move it leaves the checkmate flag FALSE.
C12_Checkmate ==
    [][ (op' = "query" /\ ~crashed') =>
            \A got \in {get_all_valid_moves(GS)} :
                /\ (Len(got.assembled) = 0 /\ got.gs.current_player_is_in_check) =>
                       (valid_moves' = <<>> /\ checkmate')
                /\ (Len(got.assembled) > 0) => ~checkmate'
      ]_vars

\* C12 witness: the query has declared a checkmate.
C12_Witness ==
    Fresh /\ op = "query" /\ valid_moves = <<>> /\ current_player_is_in_check /\ checkmate

\* C13: when the side to move is not in check and has no legal move, the
\* query returns an empty list with the in-check flag FALSE and the
\* stalemate flag TRUE.
C13_Stalemate ==
    (Fresh /\ ~Attacked(board, (IF white_to_move THEN white_king_location
                                ELSE black_king_location)[1],
                        (IF white_to_move THEN white_king_location
                         ELSE black_king_location)[2], Other(Mover))
           /\ RefLegalMoves(board, Mover, move_log) = {}) =>
        (valid_moves = <<>> /\ ~current_player_is_in_check /\ stalemate)

\* C14: after f2-f3, e7-e5, g2-g4, Qd8-h4 from the new game it is White
\* to move, the query returns no move, and the in-check flag and the
\* checkmate flag are TRUE.
C14_FoolsMate ==
    (Fresh /\ Played = fools_mate) =>
        /\ white_to_move
        /\ valid_moves = <<>>
        /\ current_player_is_in_check
        /\ checkmate

\* C14 witness: the four moves have been made and the query has answered.
C14_Witness == Fresh /\ op = "query" /\ Played = fools_mate /\ checkmate

\* The number of moves the query returns in the positions reached by
\* making, one at a time, the first n moves of the list moves in gs.
RECURSIVE Replies(_, _, _)
Replies(gs, moves, n) ==
    IF n = 0 THEN 0
    ELSE Len(get_all_valid_moves(make_move(gs, moves[n], "")).moves)
         + Replies(gs, moves, n - 1)

\* The only piece of b that is not a king is one bishop or one knight.
LoneMinorPiece(b) ==
    /\ Cardinality(ActiveSquares(b)) = 1
    /\ \A k \in ActiveSquares(b) : PieceType(b[k \div 8][k % 8]) \in {"B", "N"}

C16_Perft ==
    (op = "new") =>
        /\ Len(valid_moves) = 20
        /\ Replies(GS, valid_moves, Len(valid_moves)) = 400

\* C16 witness: one of the 20 moves has been made from the new game and
\* the query has returned 20 replies.
C16_Witness ==
    Fresh /\ op = "query" /\ game = <<>> /\ Len(move_log) = 1 /\ Len(valid_moves) = 20

\* C17: a second call of get_all_valid_moves right after the first, with
\* no make_move or undo_move between them, returns the same moves in the
\* same order.
C17_Determinism ==
    [][ (op' = "query" /\ ~crashed') =>
            \A again \in {get_all_valid_moves(GS')} :
                (~again.raised) /\ again.moves = valid_moves'
      ]_vars

\* C18: the Move built from two clicks equals vmj exactly when its four
\* coordinates are those of vmj, whatever the tokens and the flags of vmj.
C18_MoveIdentity ==
    (op = "compare") =>
        \A sr \in 0..7, sc \in 0..7, er \in 0..7, ec \in 0..7 :
            MoveEq(Move(<<sr, sc>>, <<er, ec>>, board, FALSE, FALSE, FALSE),
                   valid_moves[1])
            <=> (/\ sr = valid_moves[1].start_r /\ sc = valid_moves[1].start_c
                 /\ er = valid_moves[1].end_r /\ ec = valid_moves[1].end_c)

\* C18 witness: vmj is flagged and holds another captured token than the
\* unflagged Move of the same clicks, and the two are equal.
C18_Witness ==
    /\ op = "compare"
    /\ valid_moves[1].is_castling
    /\ valid_moves[1] # Move(<<6, 4>>, <<4, 4>>, board, FALSE, FALSE, FALSE)
    /\ MoveEq(Move(<<6, 4>>, <<4, 4>>, board, FALSE, FALSE, FALSE), valid_moves[1])

\* C19: after make_move of a move flagged is_pawn_promotion the
\* destination square holds a queen, rook, bishop or knight of the
\* mover's colour.
C19_PromotionResult ==
    (op = "make" /\ LastMove.is_pawn_promotion) =>
        board[LastMove.end_r][LastMove.end_c] \in
            {PieceColor(LastMove.piece_moved) \o kind : kind \in {"Q", "R", "B", "N"}}

\* C20: the destination of every listed king move that is not a castling
\* move is attacked by no enemy piece once the king has left its origin
\* square.
C20_KingMoveSafety ==
    Fresh =>
        \A m \in Clickable :
            (PieceType(m.piece_moved) = "K" /\ ~m.is_castling) =>
                ~Attacked(RefApply(board, Mover,
                                   <<m.start_r, m.start_c, m.end_r, m.end_c, "move">>),
                          m.end_r, m.end_c, Other(Mover))

\* The move m runs along the line of direction d, one way or the other.
OnAxis(m, d) ==
    \E k \in 1..7 :
        \/ (m.end_r - m.start_r = k * d[1] /\ m.end_c - m.start_c = k * d[2])
        \/ (m.end_r - m.start_r = -(k * d[1]) /\ m.end_c - m.start_c = -(k * d[2]))

\* The moves the generator of the piece on (r, c) appends when the pin
\* list is pin_list.
GeneratedFrom(r, c, pin_list) ==
    move_functions(PieceType(board[r][c]), GS, r, c,
                   GenState(<<>>, pin_list, white_king_location,
                            black_king_location)).moves

\* C21: for every entry of the pin list the detector finds, the generator
\* of the pinned pawn, knight, bishop, rook or queen appends exactly those
\* of the moves it appends without the pin that run along the axis of the
\* pin, in either direction; none at all when no such move exists.
C21_PinConstraint ==
    (~crashed) =>
        \A found \in {search_for_pins_and_checks(board, white_to_move,
                           white_king_location, black_king_location)} :
            \A j \in 1..Len(found.pins) :
                LET r == found.pins[j][1]
                    c == found.pins[j][2]
                    along(m) == OnAxis(m, <<found.pins[j][3], found.pins[j][4]>>)
                IN  (PieceType(board[r][c]) # "K") =>
                        GeneratedFrom(r, c, found.pins)
                            = SelectSeq(GeneratedFrom(r, c, <<>>), along)

\* The cached square of the king of the side to move.
MoverKing == IF white_to_move THEN white_king_location ELSE black_king_location

Sign(x) == IF x > 0 THEN 1 ELSE IF x < 0 THEN -1 ELSE 0

\* The squares on which a check given to the king on square king by the
\* piece on square attacker is resolved without a king move: the
\* attacker's square for a knight or a pawn, else the squares from the
\* one next to the king to the attacker's.
ResolvingSet(b, king, attacker) ==
    LET dr == attacker[1] - king[1]
        dc == attacker[2] - king[2]
        far == IF Abs(dr) > Abs(dc) THEN Abs(dr) ELSE Abs(dc)
    IN  IF PieceType(b[attacker[1]][attacker[2]]) \in {"N", "P"}
        THEN {attacker}
        ELSE {<<king[1] + k * Sign(dr), king[2] + k * Sign(dc)>> : k \in 1..far}

\* The one check the detector reported is given by a knight, pawn, bishop,
\* rook or queen.
SingleCheck ==
    /\ Fresh /\ current_player_is_in_check /\ Len(checks) = 1
    /\ PieceType(board[checks[1][1]][checks[1][2]]) \in {"N", "P", "B", "R", "Q"}

\* C22: when the detector reports exactly one checking piece, every move
\* of valid_moves that does not move a king ends in the resolving set of
\* the check.
C22_SingleCheckFilter ==
    SingleCheck =>
        \A m \in Listed :
            (PieceType(m.piece_moved) # "K") =>
                <<m.end_r, m.end_c>>
                    \in ResolvingSet(board, MoverKing, <<checks[1][1], checks[1][2]>>)

\* C22 witness: a bishop, rook or queen checks from a distance and
\* valid_moves holds a move that blocks the check and one that captures
\* the checking piece.
C22_Witness ==
    /\ SingleCheck /\ op = "query"
    /\ PieceType(board[checks[1][1]][checks[1][2]]) \in {"B", "R", "Q"}
    /\ \E m \in Listed : /\ PieceType(m.piece_moved) # "K"
                         /\ <<m.end_r, m.end_c>> # <<checks[1][1], checks[1][2]>>
    /\ \E m \in Listed : /\ PieceType(m.piece_moved) # "K"
                         /\ <<m.end_r, m.end_c>> = <<checks[1][1], checks[1][2]>>

\* C23: when the detector reports two or more checking pieces, every move
\* of valid_moves moves the king of the side to move and none castles.
C23_DoubleCheck ==
    (Fresh /\ current_player_is_in_check /\ Len(checks) >= 2) =>
        \A m \in Listed :
            m.piece_moved = Mover \o "K" /\ ~m.is_castling

\* Move m clears the castling right of the side of color on the rook's
\* side of column corner_c: it moves the king of that side, or moves its
\* rook from the home corner, or captures its rook on the home corner.
ClearsRight(m, color, corner_c) ==
    LET back_r == IF color = "w" THEN 7 ELSE 0 IN
    \/ m.piece_moved = color \o "K"
    \/ (m.piece_moved = color \o "R" /\ m.start_r = back_r /\ m.start_c = corner_c)
    \/ (m.piece_captured = color \o "R" /\ m.end_r = back_r /\ m.end_c = corner_c)

\* C24: after make_move(M) each castling right is held exactly when it
\* was held before and M neither moves the king of that side, nor moves
\* its rook from the home corner of that right, nor captures its rook on
\* that corner.
C24_RightsUpdate ==
    (op = "make") =>
        /\ current_castling_rights.wks
              = (before.current_castling_rights.wks /\ ~ClearsRight(LastMove, "w", 7))
        /\ current_castling_rights.wqs
              = (before.current_castling_rights.wqs /\ ~ClearsRight(LastMove, "w", 0))
        /\ current_castling_rights.bks
              = (before.current_castling_rights.bks /\ ~ClearsRight(LastMove, "b", 7))
        /\ current_castling_rights.bqs
              = (before.current_castling_rights.bqs /\ ~ClearsRight(LastMove, "b", 0))

\* C24 witness: make_move has captured a rook on its home corner while
\* its side held the right of that corner and the other right, which it
\* keeps.
C24_Witness ==
    /\ op = "make"
    /\ LastMove.piece_captured = "bR" /\ LastMove.end_r = 0 /\ LastMove.end_c = 7
    /\ before.current_castling_rights.bks /\ before.current_castling_rights.bqs
    /\ ~current_castling_rights.bks /\ current_castling_rights.bqs

\* The squares of b that hold a piece other than a king.
Material(b) ==
    {sq \in (0..7) \X (0..7) :
        b[sq[1]][sq[2]] # "--" /\ PieceType(b[sq[1]][sq[2]]) # "K"}

\* Every piece of b on the squares M is of kind t.
AllOfKind(b, M, t) == \A sq \in M : PieceType(b[sq[1]][sq[2]]) = t

\* The pieces of b on the squares M are all of one color.
OneColor(b, M) ==
    \A sq \in M, other \in M :
        PieceColor(b[sq[1]][sq[2]]) = PieceColor(b[other[1]][other[2]])

\* The squares M are all of one parity of row + column.
EqualParity(M) ==
    \A sq \in M, other \in M : (sq[1] + sq[2]) % 2 = (other[1] + other[2]) % 2

\* The draws by material with at most two pieces beside the kings.
DrawnUpToTwo(b) ==
    \E M \in {Material(b)} :
        \/ M = {}
        \/ (Cardinality(M) = 1 /\ (AllOfKind(b, M, "N") \/ AllOfKind(b, M, "B")))
        \/ (Cardinality(M) = 2 /\ AllOfKind(b, M, "B")
             /\ (EqualParity(M) \/ ~OneColor(b, M)))
        \/ (Cardinality(M) = 2 /\ AllOfKind(b, M, "N") /\ OneColor(b, M))

\* The draws by material with any number of bishops of both colors or of
\* knights of one color.
DrawnAnyNumber(b) ==
    \E M \in {Material(b)} :
        \/ DrawnUpToTwo(b)
        \/ (Cardinality(M) >= 2 /\ AllOfKind(b, M, "B") /\ ~OneColor(b, M))
        \/ (Cardinality(M) >= 1 /\ AllOfKind(b, M, "N") /\ OneColor(b, M))

BackRow == IF white_to_move THEN 7 ELSE 0

\* The side to move holds the queen-side right, its king stands
\* unattacked on its home square, the three squares between king and rook
\* are empty and the two the king crosses are not attacked.
QueenSideOpen ==
    /\ IF white_to_move THEN current_castling_rights.wqs
                         ELSE current_castling_rights.bqs
    /\ board[BackRow][4] = Mover \o "K"
    /\ ~Attacked(board, BackRow, 4, Other(Mover))
    /\ board[BackRow][3] = "--" /\ board[BackRow][2] = "--" /\ board[BackRow][1] = "--"
    /\ ~Attacked(board, BackRow, 3, Other(Mover))
    /\ ~Attacked(board, BackRow, 2, Other(Mover))

\* C26: when the side to move holds the queen-side right, its king is
\* not attacked, the three squares between king and rook are empty and
\* the two squares the king crosses are not attacked, the query ends
\* without an exception and its list holds the queen-side castling move,
\* whether the square next to the rook is attacked or not.
C26_QueenSideCastling ==
    (op \in {"new", "query"} /\ QueenSideOpen) =>
        /\ ~crashed
        /\ \E m \in Listed :
              /\ m.is_castling
              /\ <<m.start_r, m.start_c>> = <<BackRow, 4>>
              /\ <<m.end_r, m.end_c>> = <<BackRow, 2>>

\* C26 witness: the queen-side castling move is listed while the square
\* next to the rook is attacked.
C26_Witness ==
    /\ op = "query" /\ QueenSideOpen /\ ~crashed
    /\ Attacked(board, BackRow, 1, Other(Mover))
    /\ \E m \in Listed : m.is_castling /\ m.end_c = 2

\* The column of the rook's home corner on the side castling move m goes
\* to, and the column of the square the king crosses.
CornerOf(m) == IF m.end_c > m.start_c THEN 7 ELSE 0

CrossedBy(m) == IF m.end_c > m.start_c THEN m.end_c - 1 ELSE m.end_c + 1

\* C27: every castling move of valid_moves moves the king of the side to
\* move two columns along its row towards a rook of its color on the
\* corner; after make_move of a castling move the king stands on the
\* destination, the rook on the square the king crossed, the king's
\* origin and the rook's corner are empty and every other square is as
\* make_move found it.
C27_CastlingEffect ==
    /\ Fresh =>
          \A m \in Listed :
              m.is_castling =>
                  /\ m.piece_moved = Mover \o "K"
                  /\ m.end_r = m.start_r
                  /\ Abs(m.end_c - m.start_c) = 2
                  /\ board[m.start_r][CornerOf(m)] = Mover \o "R"
    /\ (op = "make" /\ LastMove.is_castling) =>
          \A r \in 0..7, c \in 0..7 :
              board[r][c] =
                  IF r # LastMove.start_r THEN before.board[r][c]
                  ELSE IF c = LastMove.end_c THEN Other(Mover) \o "K"
                  ELSE IF c = CrossedBy(LastMove) THEN Other(Mover) \o "R"
                  ELSE IF c = LastMove.start_c \/ c = CornerOf(LastMove) THEN "--"
                  ELSE before.board[r][c]

\* C28: every en-passant move of valid_moves records the enemy pawn that
\* stands on (origin row, destination column) as piece_captured, its
\* destination being empty; after make_move of an en-passant move the
\* capturing pawn stands on the destination, the origin and the square
\* (origin row, destination column) are empty and every other square is
\* as make_move found it.
C28_EnPassantEffect ==
    /\ Fresh =>
          \A m \in Listed :
              m.is_en_passant =>
                  /\ m.piece_moved = Mover \o "P"
                  /\ m.piece_captured = Other(Mover) \o "P"
                  /\ board[m.start_r][m.end_c] = Other(Mover) \o "P"
                  /\ board[m.end_r][m.end_c] = "--"
    /\ (op = "make" /\ LastMove.is_en_passant) =>
          \A r \in 0..7, c \in 0..7 :
              board[r][c] =
                  IF <<r, c>> = <<LastMove.end_r, LastMove.end_c>>
                  THEN Other(Mover) \o "P"
                  ELSE IF <<r, c>> = <<LastMove.start_r, LastMove.start_c>>
                          \/ <<r, c>> = <<LastMove.start_r, LastMove.end_c>>
                  THEN "--"
                  ELSE before.board[r][c]

\* C28 witness: make_move has captured en passant a pawn that stood on
\* (origin row, destination column).
C28_Witness ==
    /\ op = "make" /\ LastMove.is_en_passant
    /\ before.board[LastMove.start_r][LastMove.end_c] = Mover \o "P"
    /\ before.board[LastMove.end_r][LastMove.end_c] = "--"

\* C29: undo_move of an en-passant move leaves its destination empty,
\* the captured pawn on (origin row, destination column), the capturing
\* pawn on its origin and en_passant_possible on the destination, and
\* the get_all_valid_moves() that follows lists the same en-passant
\* move.
C29_UndoEnPassant ==
    [][ (Len(move_log) > 0 /\ Len(move_log') < Len(move_log)
         /\ move_log[Len(move_log)].is_en_passant) =>
            \A m \in {move_log[Len(move_log)]} :
                /\ board'[m.end_r][m.end_c] = "--"
                /\ board'[m.start_r][m.end_c] = m.piece_captured
                /\ PieceType(m.piece_captured) = "P"
                /\ PieceColor(m.piece_captured) # PieceColor(m.piece_moved)
                /\ board'[m.start_r][m.start_c] = m.piece_moved
                /\ en_passant_possible' = <<m.end_r, m.end_c>>
                /\ \A again \in {get_all_valid_moves(GS')} :
                      /\ ~again.raised
                      /\ \E j \in 1..Len(again.moves) :
                            /\ again.moves[j].is_en_passant
                            /\ MoveEq(again.moves[j], m)
      ]_vars

\* C29 witness: undo_move has just taken back an en-passant capture: the
\* target square is set again and empty, with the pawn to capture
\* beside a pawn of the side to move.
C29_Witness ==
    /\ op \in {"undo", "make_undo"}
    /\ en_passant_possible # <<>>
    /\ board[en_passant_possible[1]][en_passant_possible[2]] = "--"
    /\ \E dc \in {-1, 1} :
          LET r == IF white_to_move THEN en_passant_possible[1] + 1
                                    ELSE en_passant_possible[1] - 1
              c == en_passant_possible[2]
          IN  /\ OnBoard(r, c + dc)
              /\ board[r][c + dc] = Mover \o "P"
              /\ board[r][c] = Other(Mover) \o "P"

\* The moves get_pawn_moves appends for the pawns of the side to move.
PawnMovesGenerated ==
    UNION { {GeneratedFrom(sq[1], sq[2], <<>>)[j] :
                j \in 1..Len(GeneratedFrom(sq[1], sq[2], <<>>))} :
            sq \in SquaresOf(board, Mover \o "P") }

\* C30: a move appended by get_pawn_moves is flagged is_pawn_promotion
\* exactly when its destination row is the farthest from the mover's side
\* (row 0 for White, row 7 for Black), advances and captures alike, and
\* no two-square advance and no en-passant move is flagged.
C30_PromotionFlag ==
    (~crashed) =>
        \A m \in PawnMovesGenerated :
            /\ m.is_pawn_promotion = (m.end_r = (IF white_to_move THEN 0 ELSE 7))
            /\ (m.is_en_passant \/ Abs(m.end_r - m.start_r) = 2) => ~m.is_pawn_promotion

\* C30 witness: it is Black's turn and get_pawn_moves appends, for a black
\* pawn on row 6, a flagged advance to row 7 and flagged captures on both
\* diagonals, and moves of other pawns that are not flagged.
C30_Witness ==
    /\ ~crashed
    /\ ~white_to_move
    /\ \E m \in PawnMovesGenerated :
          m.is_pawn_promotion /\ m.end_c = m.start_c /\ m.end_r = 7
    /\ \E m \in PawnMovesGenerated :
          m.is_pawn_promotion /\ m.end_c = m.start_c - 1 /\ m.piece_captured # "--"
    /\ \E m \in PawnMovesGenerated :
          m.is_pawn_promotion /\ m.end_c = m.start_c + 1 /\ m.piece_captured # "--"
    /\ \E m \in PawnMovesGenerated : ~m.is_pawn_promotion

\* The squares of board b from which a piece of colour by attacks square
\* (r, c): a rook or queen along a clear orthogonal line, a bishop or queen
\* along a clear diagonal, a knight at a knight's offset, a pawn from its
\* capturing diagonal, a king next to the square.
AttackersOf(b, r, c, by) ==
    { sq \in (0..7) \X (0..7) :
        /\ PieceColor(b[sq[1]][sq[2]]) = by
        /\ LET dr == sq[1] - r
               dc == sq[2] - c
               n == IF Abs(dr) > Abs(dc) THEN Abs(dr) ELSE Abs(dc)
               t == PieceType(b[sq[1]][sq[2]])
               clear == \A k \in 1..(n - 1) :
                           b[r + k * (dr \div n)][c + k * (dc \div n)] = "--"
           IN  /\ n > 0
               /\ \/ (t \in {"R", "Q"} /\ (dr = 0 \/ dc = 0) /\ clear)
                  \/ (t \in {"B", "Q"} /\ Abs(dr) = Abs(dc) /\ clear)
                  \/ (t = "N" /\ {Abs(dr), Abs(dc)} = {1, 2})
                  \/ (t = "K" /\ n = 1)
                  \/ (t = "P" /\ Abs(dc) = 1 /\ dr = (IF by = "w" THEN 1 ELSE -1)) }

\* The squares named by the entries of a checks list.
CheckSquares(list) == { <<list[j][1], list[j][2]>> : j \in 1..Len(list) }

\* C31: in every position the program reaches, search_for_pins_and_checks()
\* reports check exactly when an enemy piece attacks the square of the king
\* of the side to move, and its checks list names exactly the attackers of
\* that square, each once.
C31_DetectorCorrect ==
    (~crashed) =>
        \E found \in {search_for_pins_and_checks(board, white_to_move,
                          white_king_location, black_king_location)} :
        \E attackers \in {UNION {AttackersOf(board, k[1], k[2], Other(Mover)) :
                                    k \in SquaresOf(board, Mover \o "K")}} :
            /\ found.current_player_is_in_check = (attackers # {})
            /\ CheckSquares(found.checks) = attackers
            /\ Len(found.checks) = Cardinality(attackers)

C33_QueryFrame ==
    [][ (op' = "query" /\ ~crashed') =>
            UNCHANGED << board, white_to_move, white_king_location,
                         black_king_location, current_castling_rights,
                         move_log, castling_rights_log, en_passant_possible >>
      ]_vars

\* What the round trip of C34 is to restore: the board, the side to move,
\* both king caches, the castling rights, the move log and the
\* castling-rights log of GameState g.
RoundTripFields(g) ==
    << g.board, g.white_to_move, g.white_king_location, g.black_king_location,
       g.current_castling_rights, g.move_log, g.castling_rights_log >>

\* C34: make_move(M) for a listed move M, followed at once by undo_move(),
\* leaves the board, the side to move, both king caches, the castling
\* rights, the move log and the castling-rights log as they were before
\* the move.
C34_PartialRoundTrip ==
    (op = "make_undo") => (RoundTripFields(GS) = RoundTripFields(before))

\* C35: whenever the move log is empty, after whatever calls of make_move
\* and undo_move, the GameState is that of the new game: the initial
\* board, White to move, the kings cached at (7, 4) and (0, 4), all four
\* castling rights, a rights log of length 1 and no en-passant target.
C35_FullUnwind ==
    (move_log = <<>>) =>
        /\ board = InitialBoard
        /\ white_to_move
        /\ white_king_location = <<7, 4>>
        /\ black_king_location = <<0, 4>>
        /\ current_castling_rights = CastlingRights(TRUE, TRUE, TRUE, TRUE)
        /\ Len(castling_rights_log) = 1
        /\ en_passant_possible = <<>>

\* C36: the current castling rights equal the last entry of the
\* castling-rights log, and the entry stored before each move of the move
\* log is still the rights that make_move found when it made that move.
C36_RightsLogSnapshots ==
    /\ current_castling_rights = castling_rights_log[Len(castling_rights_log)]
    /\ \A i \in 1..Len(rights_before) :
          i <= Len(castling_rights_log) /\ castling_rights_log[i] = rights_before[i]

\* C36 witness: make_move has just cleared a right, after an earlier move
\* had cleared another: the log holds three different snapshots.
C36_Witness ==
    /\ op = "make"
    /\ Len(castling_rights_log) >= 3
    /\ castling_rights_log[Len(castling_rights_log) - 1] # current_castling_rights
    /\ \E i \in 2..(Len(castling_rights_log) - 1) :
          /\ castling_rights_log[i] # castling_rights_log[1]
          /\ castling_rights_log[i] # current_castling_rights

\* C37: search_for_attacks, asked about the square of the king of the
\* side to move, answers True exactly when search_for_pins_and_checks()
\* reports check; and a list returned by get_all_valid_moves() that holds
\* a castling move was computed for a position the check detector did
\* not report as check.
C37_ScannersAgree ==
    (~crashed) =>
        /\ \A k \in SquaresOf(board, Mover \o "K") :
              search_for_attacks(board, k[1], k[2], Other(Mover))
                 = search_for_pins_and_checks(board, white_to_move,
                       white_king_location, black_king_location).current_player_is_in_check
        /\ (Fresh /\ op = "query" /\ \E m \in Listed : m.is_castling)
              => ~current_player_is_in_check

\* C38: after get_all_valid_moves() the checkmate flag and the stalemate
\* flag are not both True.
C38_FlagsExclusive ==
    (op = "query" /\ ~crashed) => ~(checkmate /\ stalemate)

\* C39: no listed en-passant capture, once made, leaves the king of the
\* side that made it attacked.
C39_EnPassantSafe ==
    Fresh =>
        \A m \in Listed :
            m.is_en_passant =>
                \E after \in {make_move(GS, m, "").board} :
                    \A k \in SquaresOf(after, Mover \o "K") :
                        ~Attacked(after, k[1], k[2], Other(Mover))

\* The pawns of the side to move that stand beside the pawn the last move
\* advanced two squares and that search_for_pins_and_checks() does not
\* report as pinned.
PawnsBesideAdvanced ==
    { sq \in (0..7) \X (0..7) :
        /\ sq[1] = LastMove.end_r
        /\ Abs(sq[2] - LastMove.end_c) = 1
        /\ board[sq[1]][sq[2]] = Mover \o "P"
        /\ \E found \in {search_for_pins_and_checks(board, white_to_move,
                             white_king_location, black_king_location)} :
              \A j \in 1..Len(found.pins) :
                  <<found.pins[j][1], found.pins[j][2]>> # sq }

\* C40: when the one checking piece is the enemy pawn that the last move
\* advanced two squares, every unpinned pawn of the side to move standing
\* beside it has its en-passant capture of that pawn in valid_moves.
C40_EnPassantResolvesCheck ==
    ( /\ Fresh /\ op = "query"
      /\ Len(move_log) > 0
      /\ TwoSquareAdvance(LastMove)
      /\ current_player_is_in_check
      /\ Len(checks) = 1
      /\ <<checks[1][1], checks[1][2]>> = <<LastMove.end_r, LastMove.end_c>>
      /\ board[LastMove.end_r][LastMove.end_c] = Other(Mover) \o "P" )
    => \A sq \in PawnsBesideAdvanced :
          \E m \in Listed :
              /\ m.is_en_passant
              /\ <<m.start_r, m.start_c>> = sq
              /\ <<m.end_r, m.end_c>>
                    = <<(LastMove.start_r + LastMove.end_r) \div 2, LastMove.end_c>>

====
